---- MODULE Spec2Model ----
(***************************************************************************)
(* Model of the polymarket-hft arbitrage engine and of its dashboard       *)
(* server (src/src/*.rs).                                                  *)
(*                                                                         *)
(* Number representation.  The program computes in f64; the model uses     *)
(* fixed point integers:                                                   *)
(*   - fractions (prices, profit, roi_pct, confidence, slippage, drawdown, *)
(*     q-values) are scaled by Scale = 1000, so 0.005 is 5 and 1.0 is 1000;*)
(*   - money (capital, position, investment, trade profit, daily loss) is  *)
(*     in cents (MoneyScale = 100);                                        *)
(*   - liquidity and volume are whole currency units;                      *)
(*   - max_position_size is in tenths (PosScale = 10), 0.5 is 5;           *)
(*   - the slippage is in 1/SlipScale = 1/10000, 0.0049 is 49.             *)
(* Timestamps, questions and wall-clock timings are not modelled.          *)
(***************************************************************************)
EXTENDS Integers, Sequences, FiniteSets, TLC

VARIABLES
    config,          \* HftArbitrageBot.config (BotConfig)
    arb_detector,    \* ArbitrageDetector {min_profit, min_liquidity}
    optimizer,       \* StatisticalArbOptimizer {max_pairs, min_liquidity}
    markets,         \* MarketManager.markets : id -> MarketData
    price_history,   \* MarketManager.price_history : id -> Seq(PriceSnapshot)
    graph_markets,   \* GraphArbitrageDetector.markets : id -> MarketData
    capital,         \* HftArbitrageBot.capital
    current_step,    \* HftArbitrageBot.current_step
    executed_trades, \* TradeExecutor.executed_trades (the execution ledger)
    vwap_history,    \* VwapTracker.price_history : id -> Seq(<<token, price>>)
    risk,            \* RiskManager (metrics and counters)
    q_table,         \* QLearningOptimizer.q_table : state key -> (action -> q)
    last,            \* the most recent API call: its inputs, locals and result
    bot_state,       \* AppState.bot_state : BotState (behind its mutex)
    sim_trades,      \* AppState.trades : Vec<SimulatedTrade>
    app_markets,     \* AppState.markets : Vec<MarketInfo>
    mutex,           \* the holder of each of the three std::sync::Mutex
    tasks,           \* the spawned simulate_trading futures, in spawn order
    requests,        \* the request each HTTP worker is handling
    env              \* counters that bound the requests and the trades

bot_vars == <<config, arb_detector, optimizer, markets, price_history,
              graph_markets, capital, current_step, executed_trades,
              vwap_history, risk, q_table, last>>

app_vars == <<bot_state, sim_trades, app_markets, mutex, tasks, requests, env>>

vars == <<bot_vars, app_vars>>

----------------------------------------------------------------------------
(* Bounds of the model *)

MaxSteps == 2          \* run_step calls per behaviour
MaxUpdates == 5        \* direct RiskManager::update calls per behaviour
MaxInputLen == 3       \* length of the lists handed to the pure functions

(* Scales *)
Scale == 1000
MoneyScale == 100
PosScale == 10
SlipScale == 10000

\* Option<T>: None is the empty sequence, Some(x) the one-element sequence
None == <<>>
Some(x) == <<x>>
IsSome(o) == o # <<>>
Unwrap(o) == o[1]

Min(a, b) == IF a <= b THEN a ELSE b
Max(a, b) == IF a >= b THEN a ELSE b
Abs(a) == IF a < 0 THEN 0 - a ELSE a

RECURSIVE SqrtIter(_, _, _)
SqrtIter(n, lo, hi) ==
    IF lo >= hi THEN lo
    ELSE LET mid == (lo + hi + 1) \div 2
         IN  IF mid * mid <= n THEN SqrtIter(n, mid, hi)
                               ELSE SqrtIter(n, lo, mid - 1)

\* f64::sqrt on a non-negative value, rounded down to an integer
Sqrt(n) == SqrtIter(n, 0, 46340)

RECURSIVE SumRange(_, _, _)
\* s[lo] + .. + s[hi], halving the range
SumRange(s, lo, hi) ==
    IF lo > hi THEN 0
    ELSE IF lo = hi THEN s[lo]
    ELSE LET mid == (lo + hi) \div 2
         IN  SumRange(s, lo, mid) + SumRange(s, mid + 1, hi)

SumSeq(s) == SumRange(s, 1, Len(s))

----------------------------------------------------------------------------
(* types.rs *)

TokenTypes == {"YES", "NO"}

MarketIds == {"market_0", "market_1"}

MarketData(id, yp, np, yl, nl, vol) ==
    [id |-> id, yes_price |-> yp, no_price |-> np,
     yes_liquidity |-> yl, no_liquidity |-> nl, volume_24h |-> vol]

----------------------------------------------------------------------------
(* arbitrage.rs : ArbitrageDetector *)

\* ArbitrageDetector::new(min_profit, min_liquidity): the min_profit argument
\* is dropped and the field is set to the literal 0.005.
ArbitrageDetectorNew(min_profit, min_liquidity) ==
    [min_profit |-> 5, min_liquidity |-> min_liquidity]

ArbitrageLeg(id, token, price, quantity) ==
    [market_id |-> id, token_type |-> token, direction |-> "Buy",
     price |-> price, quantity |-> quantity]

\* The confidence of detect_yes_no_arbitrage, in 1/Scale.
Confidence(total_liquidity, arb_profit, volume_24h) ==
    LET liquidity_score == Min((total_liquidity * Scale) \div 10000, Scale)
        profit_score    == Min((arb_profit * Scale) \div 50, Scale)
        volume_score    == Min((volume_24h * Scale) \div 50000, Scale)
    IN  (liquidity_score * 3 + profit_score * 5 + volume_score * 2) \div 10

\* variant: a sum of exactly 1.0 is let through
NoArbitrage_Strict(sum) == sum > Scale

\* the arbitrage condition YES + NO < 1 fails: sum >= 1.0
NoArbitrage(sum) == sum >= Scale

detect_yes_no_arbitrage(det, market) ==
    LET sum == market.yes_price + market.no_price
        arb_profit == Scale - sum
        total_liquidity == market.yes_liquidity + market.no_liquidity
    IN  IF NoArbitrage(sum) THEN None
        ELSE IF arb_profit < det.min_profit THEN None
        ELSE IF total_liquidity < det.min_liquidity THEN None
        ELSE Some(
             [market_id  |-> market.id,
              arb_type   |-> "YesNoSimple",
              profit     |-> arb_profit,
              roi_pct    |-> arb_profit * 100,
              confidence |-> Confidence(total_liquidity, arb_profit,
                                        market.volume_24h),
              yes_price  |-> market.yes_price,
              no_price   |-> market.no_price,
              sum_price  |-> sum,
              liquidity  |-> total_liquidity,
              legs       |-> Some(<<ArbitrageLeg(market.id, "YES",
                                                 market.yes_price, 0),
                                    ArbitrageLeg(market.id, "NO",
                                                 market.no_price, 0)>>),
              path       |-> None])

RECURSIVE scan_markets(_, _)
\* markets.iter().filter_map(detect_yes_no_arbitrage).collect()
scan_markets(det, ms) ==
    IF ms = <<>> THEN <<>>
    ELSE detect_yes_no_arbitrage(det, Head(ms)) \o scan_markets(det, Tail(ms))

----------------------------------------------------------------------------
(* arbitrage.rs : GraphArbitrageDetector *)

GraphMarketIds == {"graph_0"}

\* A node identifier "<id>-YES" / "<id>-NO" is kept as the pair of its parts.
FormatNode(id, token) == <<id, token>>

\* _parse_node: rsplitn(2, '-'), the suffix must be YES or NO
_parse_node(node) ==
    IF Len(node) # 2 THEN None
    ELSE IF node[2] \notin TokenTypes THEN None
    ELSE Some(<<node[1], node[2]>>)

OtherToken(token) == IF token = "YES" THEN "NO" ELSE "YES"

\* -ln(price) in 1/Scale, tabulated for the prices (in 1/Scale) that the
\* graph markets of this model carry; the sign is what the relaxation uses.
NegLn(price) ==
    CASE price = 400  -> 916
      [] price = 500  -> 693
      [] price = 900  -> 105
      [] price = 1000 -> 0
      [] price = 1100 -> 0 - 95
      [] price = 1250 -> 0 - 223

\* f64::MAX, the distance of a node that was not reached
F64Max == 2000000000

\* du + weight on f64: f64::MAX absorbs any weight of ordinary magnitude
FAdd(du, weight) == IF du = F64Max THEN F64Max ELSE du + weight

\* _build_price_graph: the edges as a function node -> <<target, weight>>;
\* every node has exactly one outgoing edge, to the other side of its market.
_build_price_graph(gm) ==
    [n \in { FormatNode(id, t) : id \in DOMAIN gm, t \in TokenTypes } |->
        <<FormatNode(n[1], OtherToken(n[2])),
          NegLn(IF n[2] = "YES" THEN gm[n[1]].yes_price
                                ELSE gm[n[1]].no_price)>>]

RECURSIVE RelaxPass(_, _, _)
\* one pass over all edges, in the iteration order ord of the node map;
\* st = [dist |-> .., pred |-> ..]
RelaxPass(graph, ord, st) ==
    IF ord = <<>> THEN st
    ELSE LET u == Head(ord)
             v == graph[u][1]
             weight == graph[u][2]
             du == st.dist[u]
             dv == st.dist[v]
             st2 == IF FAdd(du, weight) < dv
                    THEN [dist |-> [st.dist EXCEPT ![v] = FAdd(du, weight)],
                          pred |-> [st.pred EXCEPT ![v] = Some(u)]]
                    ELSE st
         IN  RelaxPass(graph, Tail(ord), st2)

RECURSIVE RelaxRounds(_, _, _, _)
RelaxRounds(graph, ord, st, rounds) ==
    IF rounds = 0 THEN st
    ELSE RelaxRounds(graph, ord, RelaxPass(graph, ord, st), rounds - 1)

\* cycle.iter().position(|x| x == curr)
Position(cycle, curr) ==
    IF \E i \in 1..Len(cycle) : cycle[i] = curr
    THEN Some(CHOOSE i \in 1..Len(cycle) :
                 /\ cycle[i] = curr
                 /\ \A j \in 1..(i - 1) : cycle[j] # curr)
    ELSE None

\* variant: the slice starts after the repeated node
CycleFrom_SkipFirst(cycle, idx) == SubSeq(cycle, idx + 1, Len(cycle))

\* cycle[idx..].to_vec(), idx counted from 1
CycleFrom(cycle, idx) == SubSeq(cycle, idx, Len(cycle))

\* the return taken when the current node is in the visited set
ClosedCycle(cycle, curr) ==
    LET idx == Position(cycle, curr)
    IN  IF IsSome(idx) THEN Some(CycleFrom(cycle, Unwrap(idx))) ELSE None

RECURSIVE ExtractWalk(_, _, _, _)
\* the while-let loop of _extract_cycle
ExtractWalk(pred, current, cycle, visited) ==
    IF current = None THEN None
    ELSE LET curr == Unwrap(current)
         IN  IF curr \in visited THEN ClosedCycle(cycle, curr)
             ELSE IF curr \notin DOMAIN pred THEN None
             ELSE ExtractWalk(pred, pred[curr], Append(cycle, curr),
                              visited \cup {curr})

_extract_cycle(pred, start) == ExtractWalk(pred, Some(start), <<>>, {})

RECURSIVE CheckPass(_, _, _)
\* the scan for an edge that can still be relaxed; one cycle per such edge
CheckPass(graph, ord, st) ==
    IF ord = <<>> THEN <<>>
    ELSE LET u == Head(ord)
             v == graph[u][1]
             weight == graph[u][2]
             found == IF FAdd(st.dist[u], weight) < st.dist[v]
                      THEN LET c == _extract_cycle(st.pred, v)
                           IN  IF IsSome(c) THEN <<Unwrap(c)>> ELSE <<>>
                      ELSE <<>>
         IN  found \o CheckPass(graph, Tail(ord), st)

\* dist and pred as the run from one start node begins: every distance
\* f64::MAX but that of the start, no predecessor
MmbfInit(graph, start) ==
    [dist |-> [n \in DOMAIN graph |-> IF n = start THEN 0 ELSE F64Max],
     pred |-> [n \in DOMAIN graph |-> None]]

RECURSIVE MmbfFrom(_, _, _)
\* the outer loop of _mmbf_algorithm over the start nodes; dist and pred are
\* reset after every start, so each start begins from the initial maps
MmbfFrom(graph, ord, starts) ==
    IF starts = <<>> THEN <<>>
    ELSE LET st == RelaxRounds(graph, ord, MmbfInit(graph, Head(starts)),
                               Cardinality(DOMAIN graph))
         IN  CheckPass(graph, ord, st) \o MmbfFrom(graph, ord, Tail(starts))

_mmbf_algorithm(graph, ord) == MmbfFrom(graph, ord, ord)

RECURSIVE CycleProduct(_, _, _)
\* the product of the prices along the cycle, in 1/Scale
CycleProduct(gm, cycle, acc) ==
    IF cycle = <<>> THEN acc
    ELSE LET p == _parse_node(Head(cycle))
             acc2 == IF IsSome(p) /\ Unwrap(p)[1] \in DOMAIN gm
                     THEN LET m == gm[Unwrap(p)[1]]
                              price == IF Unwrap(p)[2] = "YES"
                                       THEN m.yes_price ELSE m.no_price
                          IN  (acc * price) \div Scale
                     ELSE acc
         IN  CycleProduct(gm, Tail(cycle), acc2)

_cycle_to_opportunity(gm, cycle) ==
    IF Len(cycle) < 2 THEN None
    ELSE LET profit == CycleProduct(gm, cycle, Scale)
             arb_profit == Scale - profit
         IN  IF arb_profit <= 1 THEN None
             ELSE Some(
                  [market_id  |-> cycle[1],
                   arb_type   |-> "GraphArbitrage",
                   profit     |-> arb_profit,
                   roi_pct    |-> arb_profit * 100,
                   confidence |-> 700,
                   yes_price  |-> 0,
                   no_price   |-> 0,
                   sum_price  |-> profit,
                   liquidity  |-> 0,
                   legs       |-> None,
                   path       |-> Some(cycle)])

RECURSIVE CyclesToOpportunities(_, _)
CyclesToOpportunities(gm, cycles) ==
    IF cycles = <<>> THEN <<>>
    ELSE _cycle_to_opportunity(gm, Head(cycles))
            \o CyclesToOpportunities(gm, Tail(cycles))

\* detect_arbitrage_cycles; ord is the iteration order of the node map
detect_arbitrage_cycles(gm, ord) ==
    CyclesToOpportunities(gm, _mmbf_algorithm(_build_price_graph(gm), ord))

\* the iteration orders of a hash map with the key set S
Orders(S) ==
    { o \in [1..Cardinality(S) -> S] : \A i, j \in 1..Cardinality(S) :
                                           i # j => o[i] # o[j] }

----------------------------------------------------------------------------
(* optimization.rs : StatisticalArbOptimizer *)

StatisticalArbOptimizerNew == [max_pairs |-> 20, min_liquidity |-> 500]

\* roi_pct * confidence * sqrt(liquidity) / 100; the division by 100 is taken
\* before the multiplication by the confidence to stay within 32 bits
Score(opp) == ((opp.roi_pct * Sqrt(opp.liquidity)) \div 100) * opp.confidence

\* variant: the liquidity is not looked at
PassesFilter_RoiOnly(opt, opp) == opp.roi_pct > Scale

\* the filter closure: roi_pct > 1.0 && liquidity >= min_liquidity
PassesFilter(opt, opp) ==
    opp.roi_pct > Scale /\ opp.liquidity >= opt.min_liquidity

RECURSIVE FilterOpps(_, _)
FilterOpps(opt, opps) ==
    IF opps = <<>> THEN <<>>
    ELSE (IF PassesFilter(opt, Head(opps)) THEN <<Head(opps)>> ELSE <<>>)
            \o FilterOpps(opt, Tail(opps))

\* variant: an element also goes before one of equal score
SortsBefore_OrEqual(a, b) == a[2] >= b[2]

\* the comparator of sort_by: b.1.partial_cmp(&a.1), a goes before b when
\* this is Less, i.e. when the score of a is strictly greater
SortsBefore(a, b) == a[2] > b[2]

RECURSIVE InsertScored(_, _)
\* insert x behind every element that does not sort after it (stable)
InsertScored(sorted, x) ==
    IF sorted = <<>> THEN <<x>>
    ELSE IF SortsBefore(x, Head(sorted)) THEN <<x>> \o sorted
    ELSE <<Head(sorted)>> \o InsertScored(Tail(sorted), x)

RECURSIVE SortScored(_, _)
\* slice::sort_by is a stable sort
SortScored(done, rest) ==
    IF rest = <<>> THEN done
    ELSE SortScored(InsertScored(done, Head(rest)), Tail(rest))

\* variant: the cap is not applied
Take_All(s, n) == s

Take(s, n) == SubSeq(s, 1, Min(n, Len(s)))

optimize_arbitrage_pairs(opt, opportunities, _capital) ==
    IF opportunities = <<>> THEN <<>>
    ELSE LET filtered == FilterOpps(opt, opportunities)
         IN  IF filtered = <<>> THEN <<>>
             ELSE LET scored == [i \in 1..Len(filtered) |->
                                    <<i, Score(filtered[i]), filtered[i]>>]
                      sorted == SortScored(<<>>, scored)
                      taken  == Take(sorted, opt.max_pairs)
                  IN  [k \in 1..Len(taken) |-> taken[k][3]]

bregman_projection(opt, opportunities) == opportunities

----------------------------------------------------------------------------
(* risk.rs : RiskManager *)

HistoryCap == 1000

\* f64 special values of a division by zero
PosInf == 2000000001
NaN == 0 - 2000000002

\* a / b on f64, the quotient in 1/Scale
FDiv(a, b) ==
    IF b = 0 THEN (IF a = 0 THEN NaN ELSE IF a > 0 THEN PosInf ELSE 0 - PosInf)
    ELSE (a * Scale) \div b

\* x >= y on f64: false when either side is NaN
FGe(x, y) == x # NaN /\ y # NaN /\ x >= y

RiskManagerNew(daily_loss_limit, max_consecutive_losses, max_drawdown, max_position_size, max_daily_loss_pct, max_consecutive_losses_limit) ==
    [metrics |-> [var_95 |-> 0,
                  daily_loss_limit |-> daily_loss_limit,
                  max_consecutive_losses |-> max_consecutive_losses,
                  max_drawdown |-> max_drawdown,
                  current_drawdown |-> 0,
                  sharpe_ratio |-> 0],
     trade_history |-> <<>>,
     consecutive_losses |-> 0,
     daily_loss |-> 0,
     peak_capital |-> 0,
     low_capital |-> 0]

RECURSIVE InsertAsc(_, _)
InsertAsc(sorted, x) ==
    IF sorted = <<>> THEN <<x>>
    ELSE IF x < Head(sorted) THEN <<x>> \o sorted
    ELSE <<Head(sorted)>> \o InsertAsc(Tail(sorted), x)

RECURSIVE SortAsc(_, _)
SortAsc(done, rest) ==
    IF rest = <<>> THEN done
    ELSE SortAsc(InsertAsc(done, Head(rest)), Tail(rest))

IsLoss(p) == p < 0

\* variant: without the minimum sample count
calculate_var_95_NoMinimum(trade_history) ==
    LET losses == SortAsc(<<>>, SelectSeq(trade_history, IsLoss))
        index == (Len(losses) * 95) \div 100
    IN  IF index < Len(losses) THEN 0 - losses[index + 1] ELSE 0

calculate_var_95(trade_history) ==
    IF Len(trade_history) < 20 THEN 0
    ELSE LET losses == SortAsc(<<>>, SelectSeq(trade_history, IsLoss))
             index == (Len(losses) * 95) \div 100
         IN  IF index < Len(losses) THEN 0 - losses[index + 1] ELSE 0

SumSqDev(s, mean) ==
    SumSeq([i \in 1..Len(s) |-> (s[i] - mean) * (s[i] - mean)])

\* mean / std * sqrt(252), in 1/Scale; sqrt(252) = 15.875
calculate_sharpe_ratio(trade_history) ==
    IF Len(trade_history) < 10 THEN 0
    ELSE LET n == Len(trade_history)
             mean == SumSeq(trade_history) \div n
             variance == SumSqDev(trade_history, mean) \div n
             std == Sqrt(variance)
         IN  IF std = 0 THEN 0
             ELSE (((mean * Scale) \div std) * 15875) \div Scale

\* variant: a loss sets the counter to 1 instead of adding 1
NextConsecutive_NoAccumulate(consecutive_losses, profit) ==
    IF profit < 0 THEN 1 ELSE 0

\* the consecutive-loss counter of update: += 1 on a loss, else 0
NextConsecutive(consecutive_losses, profit) ==
    IF profit < 0 THEN consecutive_losses + 1 ELSE 0

\* variant: at the cap the newest entry is dropped instead of the oldest
PushCapped_DropNewest(trade_history, profit) ==
    LET pushed == Append(trade_history, profit)
    IN  IF Len(pushed) > HistoryCap THEN trade_history ELSE pushed

\* trade_history.push(profit), then remove(0) beyond the cap
PushCapped(trade_history, profit) ==
    LET pushed == Append(trade_history, profit)
    IN  IF Len(pushed) > HistoryCap THEN Tail(pushed) ELSE pushed

\* variant: the profit is added with its sign
NextDailyLoss_Signed(daily_loss, profit) ==
    IF profit < 0 THEN daily_loss + profit ELSE daily_loss

\* if profit < 0.0 { .. self.daily_loss += profit.abs(); }
NextDailyLoss(daily_loss, profit) ==
    IF profit < 0 THEN daily_loss + Abs(profit) ELSE daily_loss

\* variant: the peak follows the latest capital
NextPeak_Latest(peak_capital, cap) == cap

\* if capital > self.peak_capital { self.peak_capital = capital; .. }
NextPeak(peak_capital, cap) ==
    IF cap > peak_capital THEN cap ELSE peak_capital

\* RiskManager::update(profit, capital)
RiskUpdate(r, profit, cap) ==
    LET hist == PushCapped(r.trade_history, profit)
        losses == NextConsecutive(r.consecutive_losses, profit)
        dloss == NextDailyLoss(r.daily_loss, profit)
        peak == NextPeak(r.peak_capital, cap)
        low1 == IF cap > r.peak_capital THEN cap ELSE r.low_capital
        low == IF cap < low1 THEN cap ELSE low1
    IN  [metrics |-> [r.metrics EXCEPT
                        !.current_drawdown = FDiv(peak - cap, peak),
                        !.var_95 = calculate_var_95(hist),
                        !.sharpe_ratio = calculate_sharpe_ratio(hist)],
         trade_history |-> hist,
         consecutive_losses |-> losses,
         daily_loss |-> dloss,
         peak_capital |-> peak,
         low_capital |-> low]

\* variant: the loss streak is compared with > instead of >=
can_trade_StrictStreak(r, _capital) ==
    IF FGe(r.daily_loss, r.metrics.daily_loss_limit) THEN FALSE
    ELSE IF r.consecutive_losses > r.metrics.max_consecutive_losses THEN FALSE
    ELSE IF FGe(r.metrics.current_drawdown, r.metrics.max_drawdown) THEN FALSE
    ELSE TRUE

\* RiskManager::can_trade(_capital): three early returns, then true
can_trade(r, _capital) ==
    IF FGe(r.daily_loss, r.metrics.daily_loss_limit) THEN FALSE
    ELSE IF r.consecutive_losses >= r.metrics.max_consecutive_losses THEN FALSE
    ELSE IF FGe(r.metrics.current_drawdown, r.metrics.max_drawdown) THEN FALSE
    ELSE TRUE

reset_daily(r) == [r EXCEPT !.daily_loss = 0]

----------------------------------------------------------------------------
(* execution.rs : VwapTracker, TradeExecutor *)

VwapWindow == 20

\* exact quotients: [num, den] stands for num / den
RECURSIVE Gcd(_, _)
Gcd(a, b) == IF b = 0 THEN a ELSE Gcd(b, a % b)

Frac(n, d) == LET g == Gcd(Abs(n), Abs(d))
              IN  IF g = 0 THEN [num |-> n, den |-> d]
                  ELSE [num |-> n \div g, den |-> d \div g]

FracAdd(x, y) == Frac(x.num * y.den + y.num * x.den, x.den * y.den)

\* VwapTracker::update(market_id, token_type, price)
VwapUpdate(hist, market_id, token_type, price) ==
    LET old == IF market_id \in DOMAIN hist THEN hist[market_id] ELSE <<>>
        pushed == Append(old, <<token_type, price>>)
        kept == IF Len(pushed) > VwapWindow THEN Tail(pushed) ELSE pushed
    IN  [k \in DOMAIN hist \cup {market_id} |->
            IF k = market_id THEN kept ELSE hist[k]]

RECURSIVE PricesOf(_, _)
\* history.iter().filter(|(t, _)| t == token_type), the prices only
PricesOf(history, token_type) ==
    IF history = <<>> THEN <<>>
    ELSE (IF Head(history)[1] = token_type THEN <<Head(history)[2]>>
                                           ELSE <<>>)
            \o PricesOf(Tail(history), token_type)

\* VwapTracker::get_vwap(market_id, token_type)
get_vwap(hist, market_id, token_type) ==
    IF market_id \in DOMAIN hist
    THEN LET relevant == PricesOf(hist[market_id], token_type)
         IN  IF relevant # <<>>
             THEN Some(SumSeq(relevant) \div Len(relevant))
             ELSE None
    ELSE None

\* variant: the liquidity of the opportunity is not looked at
_calculate_position_CapitalOnly(cfg, cap, opportunity) ==
    (cap * cfg.max_position_size) \div PosScale

\* capital * max_position_size against 10% of the liquidity, in cents
_calculate_position(cfg, cap, opportunity) ==
    LET capital_limit == (cap * cfg.max_position_size) \div PosScale
        liquidity_limit == (opportunity.liquidity * MoneyScale) \div 10
    IN  Min(capital_limit, liquidity_limit)

\* variant: every trade gets the same identifier
TradeId_Constant(ledger) == <<"trade", 1>>

\* format!("trade_{}", self.executed_trades.len() + 1)
TradeId(ledger) == <<"trade", Len(ledger) + 1>>

\* variant: the quantity of a leg is taken at the default price 0.5, not at
\* the price of the leg
LegQuantity_DefaultPrice(leg_position, price) ==
    Frac(leg_position.num, leg_position.den * 500)

\* quantity: yes_position / yes_price, a number of shares:
\* (num / den) cents over (price / Scale)
LegQuantity(leg_position, price) ==
    Frac(leg_position.num, leg_position.den * price)

\* execute_arbitrage(opportunity, capital) with the slippage drawn by the
\* random generator; the result is the TradeExecution or None, the caller
\* appends it to executed_trades
execute_arbitrage(cfg, ledger, hist, opportunity, cap, slippage) ==
    LET position == _calculate_position(cfg, cap, opportunity)
        yes_position == Frac(position, 2)
        no_position == Frac(position, 2)
        yes_vwap == get_vwap(hist, opportunity.market_id, "YES")
        no_vwap == get_vwap(hist, opportunity.market_id, "NO")
        yes_price == IF IsSome(yes_vwap) THEN Unwrap(yes_vwap) ELSE 500
        no_price == IF IsSome(no_vwap) THEN Unwrap(no_vwap) ELSE 500
        yes_quantity == LegQuantity(yes_position, yes_price)
        no_quantity == LegQuantity(no_position, no_price)
        legs == <<ArbitrageLeg(opportunity.market_id, "YES", yes_price,
                               yes_quantity),
                  ArbitrageLeg(opportunity.market_id, "NO", no_price,
                               no_quantity)>>
        \* sum of price * quantity over the legs
        invested == FracAdd(Frac(legs[1].price * legs[1].quantity.num,
                                 legs[1].quantity.den),
                            Frac(legs[2].price * legs[2].quantity.num,
                                 legs[2].quantity.den))
        total_investment == invested.num \div invested.den
        expected_return == position
        \* expected_return * (1.0 - slippage_pct)
        actual_return == expected_return
                         - (expected_return * slippage) \div SlipScale
        profit == actual_return - total_investment
    IN  IF position < 10 * MoneyScale THEN None
        ELSE Some(
             [trade_id |-> TradeId(ledger),
              market_id |-> opportunity.market_id,
              arb_type |-> opportunity.arb_type,
              legs |-> legs,
              total_investment |-> total_investment,
              expected_return |-> expected_return,
              actual_return |-> actual_return,
              profit |-> profit,
              roi_pct |-> IF total_investment = 0 THEN NaN
                          ELSE (profit * 100 * Scale) \div total_investment,
              slippage_pct |-> slippage * 100,
              gas_cost |-> 2,
              fees |-> (total_investment * 2) \div Scale])

----------------------------------------------------------------------------
(* rl.rs : QLearningOptimizer, constructed by new(0.1, 0.95, 0.1) *)

Epsilon == 100
Alpha == 950
Gamma == 100

Actions == {0, 1, 2}

\* the key "<z>_<m>_<arb>" is kept as the triple of its parts
get_state_key(z_score, momentum, arb_available) ==
    <<IF z_score > 2000 THEN "high"
      ELSE IF z_score < 0 - 2000 THEN "low" ELSE "mid",
      IF momentum > 10 THEN "up"
      ELSE IF momentum < 0 - 10 THEN "down" ELSE "flat",
      IF arb_available THEN "yes" ELSE "no">>

\* variant: inserting a new state drops the states stored before
QInit_Replace(qt, state) ==
    IF state \in DOMAIN qt THEN qt
    ELSE [k \in {state} |-> [a \in Actions |-> 0]]

\* the table after the entry(state).or_insert_with(..) of get_action
QInit(qt, state) ==
    IF state \in DOMAIN qt THEN qt
    ELSE [k \in DOMAIN qt \cup {state} |->
             IF k = state THEN [a \in Actions |-> 0] ELSE qt[k]]

RECURSIVE BestAction(_, _, _, _)
\* the exploit loop over the action map in its iteration order ord;
\* best_q = None stands for f64::NEG_INFINITY
BestAction(actions, ord, best_action, best_q) ==
    IF ord = <<>> THEN best_action
    ELSE LET a == Head(ord)
             q == actions[a]
         IN  IF best_q = None \/ q > Unwrap(best_q)
             THEN BestAction(actions, Tail(ord), a, Some(q))
             ELSE BestAction(actions, Tail(ord), best_action, best_q)

\* get_action: the returned action; draw is the uniform sample compared with
\* epsilon, rnd the random action, ord the iteration order of the action map
get_action(qt, z_score, momentum, arb_available, draw, rnd, ord) ==
    LET state == get_state_key(z_score, momentum, arb_available)
        actions == QInit(qt, state)[state]
    IN  IF draw < Epsilon THEN rnd
        ELSE BestAction(actions, ord, 0, None)

RECURSIVE MaxOf(_)
MaxOf(S) == LET x == CHOOSE y \in S : TRUE
            IN  IF S = {x} THEN x ELSE Max(x, MaxOf(S \ {x}))

\* variant: the discounted best value of the state is left out
QUpdate_NoDiscount(qt, z_score, momentum, arb_available, action, reward) ==
    LET state == get_state_key(z_score, momentum, arb_available)
    IN  IF state \in DOMAIN qt
        THEN LET actions == qt[state]
                 current_q == IF action \in DOMAIN actions
                              THEN actions[action] ELSE 0
                 new_q == current_q
                          + (Alpha * (reward - current_q)) \div Scale
             IN  [qt EXCEPT ![state] =
                     [a \in DOMAIN actions \cup {action} |->
                         IF a = action THEN new_q ELSE actions[a]]]
        ELSE qt

\* QLearningOptimizer::update
QUpdate(qt, z_score, momentum, arb_available, action, reward) ==
    LET state == get_state_key(z_score, momentum, arb_available)
    IN  IF state \in DOMAIN qt
        THEN LET actions == qt[state]
                 current_q == IF action \in DOMAIN actions
                              THEN actions[action] ELSE 0
                 max_future_q == MaxOf({ actions[a] : a \in DOMAIN actions })
                 new_q == current_q
                          + (Alpha * (reward
                                      + (Gamma * max_future_q) \div Scale
                                      - current_q)) \div Scale
             IN  [qt EXCEPT ![state] =
                     [a \in DOMAIN actions \cup {action} |->
                         IF a = action THEN new_q ELSE actions[a]]]
        ELSE qt

----------------------------------------------------------------------------
(* market.rs : MarketManager *)

PriceHistoryCap == 1000

PriceSnapshot(m) ==
    [yes_price |-> m.yes_price, no_price |-> m.no_price,
     volume |-> m.volume_24h]

\* Markets as _generate_simulated_market draws them: yes in [0.3, 0.7),
\* no = 1 - yes, both lowered by half a mispricing in [0.01, 0.05) in 30% of
\* the draws, liquidity per side in [5000, 50000), volume in [10000, 100000)
SimulatedMarkets(id) ==
    IF id = "market_0"
    THEN { MarketData(id, 500, 500, 49900, 49900, 50000),
           MarketData(id, 495, 495, 5000, 5000, 10000) }
    ELSE { MarketData(id, 480, 480, 5000, 5000, 10000) }

\* The random draws of update_prices for one market: the two price changes
\* in [-0.02, 0.02), the mispricing (None in 90% of the draws, else a value
\* in [0.01, 0.05)), the liquidity factors in [0.95, 1.05) and the volume
\* factor in [0.99, 1.01)
Draw(yc, nc, mis, ylf, nlf, vf) ==
    [yes_change |-> yc, no_change |-> nc, mispricing |-> mis,
     yes_liq |-> ylf, no_liq |-> nlf, vol |-> vf]

Draws ==
    { Draw(0, 0, None, 1000, 1000, 1000),
      Draw(0 - 19, 0 - 19, Some(40), 1049, 1049, 1009) }

Clamp(x, lo, hi) == Min(Max(x, lo), hi)

\* the body of the loop of update_prices for one market
UpdateMarket(m, d) ==
    LET yes1 == Clamp((m.yes_price * (Scale + d.yes_change)) \div Scale,
                      10, 990)
        no1 == Clamp((m.no_price * (Scale + d.no_change)) \div Scale,
                     10, 990)
        yes2 == IF IsSome(d.mispricing)
                THEN Max(yes1 - Unwrap(d.mispricing) \div 2, 10) ELSE yes1
        no2 == IF IsSome(d.mispricing)
               THEN Max(no1 - Unwrap(d.mispricing) \div 2, 10) ELSE no1
    IN  [m EXCEPT !.yes_price = yes2,
                  !.no_price = no2,
                  !.yes_liquidity = (m.yes_liquidity * d.yes_liq) \div Scale,
                  !.no_liquidity = (m.no_liquidity * d.no_liq) \div Scale,
                  !.volume_24h = (m.volume_24h * d.vol) \div Scale]

PushSnapshot(history, m) ==
    LET pushed == Append(history, PriceSnapshot(m))
    IN  IF Len(pushed) > PriceHistoryCap THEN Tail(pushed) ELSE pushed

\* update_prices: the new market map, ds gives the draws of every market
update_prices_markets(ms, ds) ==
    [id \in DOMAIN ms |-> UpdateMarket(ms[id], ds[id])]

update_prices_history(ph, ms2) ==
    [id \in DOMAIN ph \cup DOMAIN ms2 |->
        IF id \in DOMAIN ms2
        THEN PushSnapshot(IF id \in DOMAIN ph THEN ph[id] ELSE <<>>, ms2[id])
        ELSE ph[id]]

----------------------------------------------------------------------------
(* lib.rs : HftArbitrageBot *)

BotConfig(initial_capital, min_profit_threshold, max_position_size) ==
    [initial_capital |-> initial_capital,
     min_profit_threshold |-> min_profit_threshold,
     max_position_size |-> max_position_size]

\* BotConfig::default() (capital 1000, threshold 0.01, position size 100.0),
\* the configuration of the end-to-end scenario (capital 1000, threshold
\* 0.005, position fraction 0.5) and a small account (capital 15)
Configs ==
    { BotConfig(1000 * MoneyScale, 10, 100 * PosScale),
      BotConfig(1000 * MoneyScale, 5, 5),
      BotConfig(15 * MoneyScale, 10, 5) }

StepResult(step, opportunities, trades, profit, cap, win_rate) ==
    [step |-> step, opportunities |-> opportunities, trades |-> trades,
     profit |-> profit, capital |-> cap, win_rate |-> win_rate]

NoCall == [op |-> "none"]

-----------------------------------------------------------------------------
(***************************************************************************)
(* api_server.rs : the dashboard state.  Balances and profits are in      *)
(* cents, win_rate is a percentage scaled by Scale.  Identifiers of       *)
(* trades, questions and timestamps (last_update) are not modelled.       *)
(***************************************************************************)

\* the HTTP workers of the server, each handling one request at a time
Workers == 2

\* the three mutexes of AppState that the handlers and the task lock
Mutexes == {"bot_state", "trades", "markets"}

BotState(running, balance, initial_balance, total_pnl, win_rate, total_trades, profitable_trades) ==
    [running |-> running, balance |-> balance,
     initial_balance |-> initial_balance, total_pnl |-> total_pnl,
     win_rate |-> win_rate, total_trades |-> total_trades,
     profitable_trades |-> profitable_trades]

MarketInfo(id, yes_price, no_price) ==
    [id |-> id, yes_price |-> yes_price, no_price |-> no_price]

SimulatedTrade(market_id, action, price, quantity, amount, pnl, arbitrage_profit) ==
    [market_id |-> market_id, action |-> action, price |-> price,
     quantity |-> quantity, amount |-> amount, status |-> "FILLED",
     pnl |-> pnl, arbitrage_profit |-> arbitrage_profit]

\* a worker with no request
Idle == [handler |-> "idle"]

\* AppState::new(), with the market list the embedding program stored
AppStateNew(market_list) ==
    /\ bot_state = BotState(FALSE, 10000 * MoneyScale, 10000 * MoneyScale,
                            0, 0, 0, 0)
    /\ sim_trades = <<>>
    /\ app_markets = market_list
    /\ mutex = [m \in Mutexes |-> None]
    /\ tasks = <<>>
    /\ requests = [w \in 1..Workers |-> Idle]
    /\ env = [received |-> 0, made |-> 0]

\* the engine with freshly constructed components: empty maps, an empty
\* ledger, the capital of the configuration
HftArbitrageBotNew(cfg, det, opt, rm) ==
    /\ config = cfg
    /\ arb_detector = det
    /\ optimizer = opt
    /\ markets = <<>>
    /\ price_history = <<>>
    /\ graph_markets = <<>>
    /\ capital = cfg.initial_capital
    /\ current_step = 0
    /\ executed_trades = <<>>
    /\ vwap_history = <<>>
    /\ risk = rm
    /\ q_table = <<>>

\* the engine alone: the dashboard state is the one AppState::new() builds
Constructed(cfg, det, opt, rm) ==
    /\ HftArbitrageBotNew(cfg, det, opt, rm)
    /\ AppStateNew(<<>>)

DefaultRiskManager == RiskManagerNew(50 * MoneyScale, 10, 150, 100, 200, 10)

\* HftArbitrageBot::new(config)
Init ==
    /\ \E cfg \in Configs :
          Constructed(cfg,
                      ArbitrageDetectorNew(cfg.min_profit_threshold, 1000),
                      StatisticalArbOptimizerNew, DefaultRiskManager)
    /\ last = NoCall

\* MarketManager::fetch_markets as run_simulation calls it before the first
\* step: one simulated market per identifier
FetchMarkets ==
    /\ markets = <<>>
    /\ current_step = 0
    /\ \E ms \in { f \in [MarketIds -> UNION { SimulatedMarkets(id) :
                                                 id \in MarketIds }] :
                     \A id \in MarketIds : f[id] \in SimulatedMarkets(id) } :
          /\ markets' = ms
          /\ price_history' = [id \in MarketIds |-> <<PriceSnapshot(ms[id])>>]
    /\ UNCHANGED <<config, arb_detector, optimizer, graph_markets, capital,
                   current_step, executed_trades, vwap_history, risk, q_table,
                   last>>
    /\ UNCHANGED app_vars

\* Snapshots a caller hands to GraphArbitrageDetector::add_market
GraphSnapshots ==
    { MarketData(id, 1250, 1100, 5000, 5000, 10000) : id \in GraphMarketIds }

\* graph_detector.add_market(market)
GraphAddMarket ==
    /\ \E m \in GraphSnapshots :
          /\ ~(m.id \in DOMAIN graph_markets /\ graph_markets[m.id] = m)
          /\ graph_markets' = [id \in DOMAIN graph_markets \cup {m.id} |->
                                  IF id = m.id THEN m ELSE graph_markets[id]]
    /\ UNCHANGED <<config, arb_detector, optimizer, markets, price_history,
                   capital, current_step, executed_trades, vwap_history, risk,
                   q_table, last>>
    /\ UNCHANGED app_vars

\* risk_manager.reset_daily(), the caller's duty at a day boundary
ResetDaily ==
    /\ risk.daily_loss # 0
    /\ risk' = reset_daily(risk)
    /\ UNCHANGED <<config, arb_detector, optimizer, markets, price_history,
                   graph_markets, capital, current_step, executed_trades,
                   vwap_history, q_table, last>>
    /\ UNCHANGED app_vars

\* slippage draws of gen_range(0.0..0.005)
Slippages == {0, 49}

\* the combined draws of update_prices over the markets of one cycle
CycleDraws(ids) == [ids -> Draws]

\* run_step when update_prices returns Err: the ? operator at lib.rs:92
\* returns the error to the caller, after the step counter was advanced.
\* The simulated update_prices of market.rs always returns Ok; this action is
\* the Err arm that its Result<(), String> type leaves to a failing provider.
RunStepFetchErr ==
    /\ current_step < MaxSteps
    /\ current_step' = current_step + 1
    /\ last' = [op |-> "run_step", ok |-> FALSE]
    /\ UNCHANGED <<config, arb_detector, optimizer, markets, price_history,
                   graph_markets, capital, executed_trades, vwap_history,
                   risk, q_table>>
    /\ UNCHANGED app_vars

\* variant: the gate is not consulted
GateOpen_Unchecked(r, cap) == TRUE

\* if !self.risk_manager.can_trade(self.capital) { return .. }
GateOpen(r, cap) == can_trade(r, cap)

\* variant: the last element of the ranked list is executed
TopOpportunity_Last(projected) == projected[Len(projected)]

\* &projected[0], the opportunity handed to execute_arbitrage
TopOpportunity(projected) == projected[1]

\* variant: the gross return of the trade is taken for its profit
StepProfit_GrossReturn(trade) ==
    IF IsSome(trade) THEN Unwrap(trade).actual_return ELSE 0

\* trade.as_ref().map(|t| t.profit).unwrap_or(0.0)
StepProfit(trade) == IF IsSome(trade) THEN Unwrap(trade).profit ELSE 0

\* the local values of one successful pass through run_step, given the
\* random draws: ds (update_prices), mord and gord (iteration orders of the
\* market maps), slip (slippage), act (the action get_action returns)
RunStepLocals(ds, mord, gord, slip, act) ==
    LET markets2 == update_prices_markets(markets, ds)
        mlist == [i \in 1..Len(mord) |-> markets2[mord[i]]]
        simple_arbs == scan_markets(arb_detector, mlist)
        graph_arbs == detect_arbitrage_cycles(graph_markets, gord)
        all_opportunities == simple_arbs \o graph_arbs
        optimized == optimize_arbitrage_pairs(optimizer, all_opportunities,
                                              capital)
        projected == bregman_projection(optimizer, optimized)
        gate == IF all_opportunities = <<>> \/ projected = <<>>
                THEN "skipped"
                ELSE IF GateOpen(risk, capital) THEN "open" ELSE "closed"
        trade == IF gate = "open"
                 THEN execute_arbitrage(config, executed_trades, vwap_history,
                                        TopOpportunity(projected), capital,
                                        slip)
                 ELSE None
        profit == StepProfit(trade)
    IN  [markets2 |-> markets2, mlist |-> mlist,
         all_opportunities |-> all_opportunities,
         optimized |-> optimized, projected |-> projected,
         gate |-> gate, trade |-> trade, profit |-> profit,
         slip |-> slip, act |-> act]

\* variant: the Risk Manager is updated in every cycle
RiskAfterStep_Always(executed, r, profit, cap) == RiskUpdate(r, profit, cap)

\* self.risk_manager.update(profit, self.capital) at lib.rs:164, which the
\* three early returns do not reach
RiskAfterStep(executed, r, profit, cap) ==
    IF executed THEN RiskUpdate(r, profit, cap) ELSE r

\* variant: the opportunity count is not reported
ZeroActivity_NoCount(step, opportunities, cap) ==
    StepResult(step, 0, 0, 0, cap, 0)

\* the summary of the three early returns of run_step (lib.rs:103-153)
ZeroActivity(step, opportunities, cap) ==
    StepResult(step, opportunities, 0, 0, cap, 0)

\* run_step when update_prices returns Ok
RunStepOk ==
    /\ current_step < MaxSteps
    /\ \E ds \in CycleDraws(DOMAIN markets),
          mord \in Orders(DOMAIN markets),
          gord \in Orders(DOMAIN _build_price_graph(graph_markets)),
          slip \in Slippages :
      \E l0 \in {RunStepLocals(ds, mord, gord, slip, 0)} :
        LET z_score == IF l0.gate = "open"
                          /\ (Scale - l0.projected[1].sum_price) > 20
                       THEN 2500 ELSE 500
            state == get_state_key(z_score, 10, TRUE)
            qt1 == QInit(q_table, state)
        IN  \E act \in { get_action(q_table, z_score, 10, TRUE, draw, rnd, ao) :
                            draw \in {0, 500}, rnd \in {2},
                            ao \in {<<0, 1, 2>>, <<1, 2, 0>>} } :
            \E l \in {[l0 EXCEPT !.act = act]} :
              LET executed == l.gate = "open"
                  traded == IsSome(l.trade)
                  capital2 == capital + l.profit
                  ledger2 == IF traded
                             THEN Append(executed_trades, Unwrap(l.trade))
                             ELSE executed_trades
                  reward == IF l.profit > 0 THEN Scale ELSE 0 - Scale
              IN  /\ (~traded => act = 0 /\ slip = 0)
                  /\ (~executed => slip = 0)
                  /\ current_step' = current_step + 1
                  /\ markets' = l.markets2
                  /\ price_history' =
                        update_prices_history(price_history, l.markets2)
                  /\ capital' = IF executed THEN capital2 ELSE capital
                  /\ executed_trades' = ledger2
                  /\ risk' = RiskAfterStep(executed, risk, l.profit,
                                           capital2)
                  /\ q_table' = IF traded
                                THEN QUpdate(qt1, z_score, 10, TRUE, act,
                                             reward)
                                ELSE q_table
                  /\ last' = [op |-> "run_step", ok |-> TRUE,
                              capital_in |-> capital,
                              all_opportunities |-> l.all_opportunities,
                              optimized |-> l.optimized,
                              projected |-> l.projected,
                              gate |-> l.gate,
                              trade |-> l.trade,
                              result |->
                                IF l.all_opportunities = <<>>
                                THEN ZeroActivity(current_step + 1, 0, capital)
                                ELSE IF ~executed
                                THEN ZeroActivity(current_step + 1,
                                                  Len(l.all_opportunities),
                                                  capital)
                                ELSE StepResult(current_step + 1,
                                                Len(l.all_opportunities),
                                                IF traded THEN 1 ELSE 0,
                                                l.profit, capital2,
                                                Len(ledger2) * Scale)]
    /\ UNCHANGED <<config, arb_detector, optimizer, graph_markets,
                   vwap_history>>
    /\ UNCHANGED app_vars

Next == FetchMarkets \/ GraphAddMarket \/ ResetDaily \/ RunStepFetchErr
           \/ RunStepOk

Spec == Init /\ [][Next]_vars

----------------------------------------------------------------------------
(* The components driven directly through their public interface *)

engine_rest == <<config, markets, price_history, graph_markets, capital,
                 current_step, executed_trades, vwap_history, q_table>>

DefaultConfig == BotConfig(1000 * MoneyScale, 10, 100 * PosScale)

\* all sequences over S of length at most n
SeqUpTo(S, n) == UNION { [1..k -> S] : k \in 0..n }

(* RiskManager: new, update, reset_daily, can_trade *)

\* <<daily_loss_limit, max_consecutive_losses, max_drawdown>>
RiskParams ==
    { <<50 * MoneyScale, 2, 150>>,
      <<50 * MoneyScale, 5, 2000>>,
      <<1000000 * MoneyScale, 2, 150>>,
      <<1000000 * MoneyScale, 5, 2000>> }

RiskProfits == {0 - 20 * MoneyScale, 0, 15 * MoneyScale}
RiskCapitals == {0, 850 * MoneyScale, 1000 * MoneyScale}

RiskInit ==
    /\ \E p \in RiskParams :
          Constructed(DefaultConfig, ArbitrageDetectorNew(10, 1000),
                      StatisticalArbOptimizerNew,
                      RiskManagerNew(p[1], p[2], p[3], 100, 200, 10))
    /\ last = NoCall

RmUpdate ==
    /\ Len(risk.trade_history) < MaxUpdates
    /\ \E profit \in RiskProfits, cap \in RiskCapitals :
          /\ risk' = RiskUpdate(risk, profit, cap)
          /\ last' = [op |-> "update", profit |-> profit, capital |-> cap]
    /\ UNCHANGED <<engine_rest, arb_detector, optimizer>>
    /\ UNCHANGED app_vars

RmResetDaily ==
    /\ risk.daily_loss # 0
    /\ risk' = reset_daily(risk)
    /\ last' = [op |-> "reset_daily"]
    /\ UNCHANGED <<engine_rest, arb_detector, optimizer>>
    /\ UNCHANGED app_vars

RiskNext == RmUpdate \/ RmResetDaily

SpecRisk == RiskInit /\ [][RiskNext]_vars

(* ArbitrageDetector: new or a struct literal, then scan_markets *)

ScanDetectors ==
    { [det |-> ArbitrageDetectorNew(m, l),
       ctor |-> [kind |-> "new", min_profit |-> m, min_liquidity |-> l]] :
         m \in {5, 10}, l \in {0, 1000} }
    \cup
    { [det |-> [min_profit |-> m, min_liquidity |-> 0],
       ctor |-> [kind |-> "literal", min_profit |-> m, min_liquidity |-> 0]] :
         m \in {0, 0 - 50} }

ScanSnapshots ==
    { MarketData("market_0", 500, 500, 5000, 5000, 50000),
      MarketData("market_1", 600, 450, 5000, 5000, 50000),
      MarketData("market_2", 497, 497, 5000, 5000, 10000),
      MarketData("market_3", 400, 550, 0, 0, 0),
      MarketData("market_4", 480, 480, 400, 400, 10000) }

ScanInit ==
    /\ \E d \in ScanDetectors :
          /\ Constructed(DefaultConfig, d.det, StatisticalArbOptimizerNew,
                         DefaultRiskManager)
          /\ last = [op |-> "constructed", ctor |-> d.ctor]

\* scan_markets is pure: one call per behaviour covers every call
ScanMarkets ==
    /\ last.op = "constructed"
    /\ \E ms \in SeqUpTo(ScanSnapshots, MaxInputLen) :
          last' = [op |-> "scan_markets", ctor |-> last.ctor,
                   markets |-> ms, ret |-> scan_markets(arb_detector, ms)]
    /\ UNCHANGED <<engine_rest, arb_detector, optimizer, risk>>
    /\ UNCHANGED app_vars

ScanNext == ScanMarkets

SpecScan == ScanInit /\ [][ScanNext]_vars

(* StatisticalArbOptimizer: optimize_arbitrage_pairs *)

Opportunity(id, roi_pct, confidence, liquidity) ==
    [market_id |-> id, arb_type |-> "YesNoSimple",
     profit |-> roi_pct \div 100, roi_pct |-> roi_pct,
     confidence |-> confidence, yes_price |-> 480,
     no_price |-> 520 - roi_pct \div 100,
     sum_price |-> Scale - roi_pct \div 100, liquidity |-> liquidity,
     legs |-> None, path |-> None]

\* two opportunities of equal score, one of higher score, one with
\* roi_pct = 1.0 and one with short liquidity
OptOpportunities ==
    { Opportunity("market_a", 4000, 500, 10000),
      Opportunity("market_b", 4000, 500, 10000),
      Opportunity("market_c", 6000, 800, 40000),
      Opportunity("market_d", 1000, 900, 10000),
      Opportunity("market_e", 5000, 700, 400) }

OptInit ==
    /\ \E k \in {1, 2, 20} :
          Constructed(DefaultConfig, ArbitrageDetectorNew(10, 1000),
                      [StatisticalArbOptimizerNew EXCEPT !.max_pairs = k],
                      DefaultRiskManager)
    /\ last = NoCall

\* optimize_arbitrage_pairs is pure: one call per behaviour covers every call
OptimizePairs ==
    /\ last = NoCall
    /\ \E opps \in SeqUpTo(OptOpportunities, MaxInputLen) :
          last' = [op |-> "optimize_arbitrage_pairs", opportunities |-> opps,
                   ret |-> optimize_arbitrage_pairs(optimizer, opps, capital)]
    /\ UNCHANGED <<engine_rest, arb_detector, optimizer, risk>>
    /\ UNCHANGED app_vars

OptNext == OptimizePairs

SpecOpt == OptInit /\ [][OptNext]_vars

----------------------------------------------------------------------------
(* Properties *)

IsRunStep == last.op = "run_step"
RanToTheEnd == IsRunStep /\ last.ok

\* C1: every run_step call grows the ledger by at most one record, the
\* summary's trades field equals that growth, and the capital after the call
\* is the capital before it plus the profit of the appended trade (the same
\* capital when no trade is appended).
C1_OneCapitalMutationPerStep ==
    [][current_step' = current_step + 1 =>
         LET growth == Len(executed_trades') - Len(executed_trades)
         IN  /\ growth \in {0, 1}
             /\ SubSeq(executed_trades', 1, Len(executed_trades))
                   = executed_trades
             /\ last'.ok => last'.result.trades = growth
             /\ capital' = capital
                  + (IF growth = 1
                     THEN executed_trades'[Len(executed_trades')].profit
                     ELSE 0)]_vars

C1_Witness ==
    /\ RanToTheEnd
    /\ last.result.trades = 1
    /\ capital = last.capital_in + executed_trades[Len(executed_trades)].profit
    /\ capital # last.capital_in

\* C2: when can_trade() is false as run_step reaches the gate, no trade is
\* executed, capital and ledger stay as they were, and the summary reports
\* trades = 0 together with the number of merged scanner opportunities.
C2_ClosedGateBlocksExecution ==
    [][(current_step' = current_step + 1 /\ last'.ok
          /\ ~can_trade(risk, capital)) =>
         /\ capital' = capital
         /\ executed_trades' = executed_trades
         /\ last'.result.trades = 0
         /\ last'.result.opportunities = Len(last'.all_opportunities)
         /\ last'.result.capital = capital]_vars

C2_Witness ==
    /\ RanToTheEnd
    /\ last.gate = "closed"
    /\ last.result.opportunities > 0
    /\ last.result.trades = 0

CapitalArgs == RiskCapitals \cup {0 - 1, 1}

\* C3: in every reachable state of the Risk Manager can_trade() is false
\* exactly when daily_loss >= daily_loss_limit or consecutive_losses >=
\* max_consecutive_losses or current_drawdown >= max_drawdown, whatever the
\* capital argument is.
C3_CanTradeIsTheThreeLimits ==
    \A c \in CapitalArgs :
        can_trade(risk, c) =
            ~(\/ risk.daily_loss >= risk.metrics.daily_loss_limit
              \/ risk.consecutive_losses
                    >= risk.metrics.max_consecutive_losses
              \/ FGe(risk.metrics.current_drawdown,
                     risk.metrics.max_drawdown))

\* the gate is closed by the loss streak alone, at the limit exactly
C3_Witness ==
    /\ risk.consecutive_losses = risk.metrics.max_consecutive_losses
    /\ risk.daily_loss < risk.metrics.daily_loss_limit
    /\ ~FGe(risk.metrics.current_drawdown, risk.metrics.max_drawdown)
    /\ ~can_trade(risk, capital)

\* the last n entries of the trade history are all losses
LossStreak(n) ==
    /\ Len(risk.trade_history) >= n
    /\ \A i \in (Len(risk.trade_history) - n + 1)..Len(risk.trade_history) :
          risk.trade_history[i] < 0

\* C4: with max_consecutive_losses = N, after N consecutive updates with a
\* negative profit can_trade() is false, whatever the capitals passed, the
\* daily-loss limit and the drawdown limit are.
C4_LossStreakClosesGate ==
    LossStreak(risk.metrics.max_consecutive_losses) =>
        \A c \in CapitalArgs : ~can_trade(risk, c)

\* five losses in a row with N = 5, neither of the other two limits reached
C4_Witness ==
    /\ risk.metrics.max_consecutive_losses = 5
    /\ LossStreak(5)
    /\ risk.daily_loss < risk.metrics.daily_loss_limit
    /\ ~FGe(risk.metrics.current_drawdown, risk.metrics.max_drawdown)
    /\ ~can_trade(risk, capital)

SumOf(market) == market.yes_price + market.no_price

\* C6: a snapshot with price_yes + price_no >= 1 yields no opportunity, for
\* every configured min_profit and min_liquidity, and every opportunity that
\* scan_markets returns comes from a snapshot of the input whose sum is < 1.
C6_NoOpportunityAtOrAboveOne ==
    last.op = "scan_markets" =>
        /\ \A i \in 1..Len(last.markets) :
              SumOf(last.markets[i]) >= Scale =>
                 detect_yes_no_arbitrage(arb_detector, last.markets[i]) = None
        /\ \A k \in 1..Len(last.ret) :
              /\ last.ret[k].sum_price < Scale
              /\ \E i \in 1..Len(last.markets) :
                    /\ last.markets[i].id = last.ret[k].market_id
                    /\ SumOf(last.markets[i]) = last.ret[k].sum_price

\* a scan with a threshold of zero or less over a list that holds a snapshot
\* of sum exactly 1 and one below 1, the latter being returned
C6_Witness ==
    /\ last.op = "scan_markets"
    /\ arb_detector.min_profit <= 0
    /\ \E i \in 1..Len(last.markets) : SumOf(last.markets[i]) = Scale
    /\ Len(last.ret) >= 1
    /\ Len(last.ret) < Len(last.markets)

\* C7: a scanner constructed with min_profit = m returns an opportunity for a
\* snapshot with sum < 1 and sufficient liquidity if and only if
\* 1 - sum >= m.
C7_ConfiguredThresholdApplied ==
    (last.op = "scan_markets" /\ last.ctor.kind = "new") =>
        \A i \in 1..Len(last.markets) :
            (/\ SumOf(last.markets[i]) < Scale
             /\ last.markets[i].yes_liquidity + last.markets[i].no_liquidity
                   >= last.ctor.min_liquidity) =>
                (IsSome(detect_yes_no_arbitrage(arb_detector,
                                                last.markets[i]))
                    <=> Scale - SumOf(last.markets[i])
                           >= last.ctor.min_profit)

IsOptimize == last.op = "optimize_arbitrage_pairs"

\* roi_pct > 1.0 and liquidity >= min_liquidity, the Optimizer's filter
Qualifies(opp) ==
    opp.roi_pct > Scale /\ opp.liquidity >= optimizer.min_liquidity

Injective(f) == \A a, b \in DOMAIN f : a # b => f[a] # f[b]

\* C8: optimize_arbitrage_pairs returns at most max_pairs opportunities, and
\* every returned opportunity is an element of the input that satisfies
\* roi_pct > 1.0 and liquidity >= min_liquidity; distinct positions of the
\* output come from distinct positions of the input.
C8_OutputIsCappedSubsetOfInput ==
    IsOptimize =>
        /\ Len(last.ret) <= optimizer.max_pairs
        /\ \A k \in 1..Len(last.ret) : Qualifies(last.ret[k])
        /\ \E f \in [1..Len(last.ret) -> 1..Len(last.opportunities)] :
              /\ Injective(f)
              /\ \A k \in 1..Len(last.ret) :
                    last.opportunities[f[k]] = last.ret[k]

\* more qualifying inputs than max_pairs, and an input that does not qualify
C8_Witness ==
    /\ IsOptimize
    /\ Len(last.ret) = optimizer.max_pairs
    /\ Cardinality({ i \in 1..Len(last.opportunities) :
                        Qualifies(last.opportunities[i]) })
          > optimizer.max_pairs
    /\ \E i \in 1..Len(last.opportunities) :
          ~Qualifies(last.opportunities[i])

RECURSIVE WithScore(_, _)
\* the qualifying elements of s whose score is v, in the order of s
WithScore(s, v) ==
    IF s = <<>> THEN <<>>
    ELSE (IF Qualifies(Head(s)) /\ Score(Head(s)) = v THEN <<Head(s)>>
                                                      ELSE <<>>)
            \o WithScore(Tail(s), v)

IsPrefix(a, b) == Len(a) <= Len(b) /\ SubSeq(b, 1, Len(a)) = a

\* C9: the output of the Optimizer is ordered by non-increasing score, and
\* the returned opportunities of one score appear in the order in which the
\* input lists them.
C9_RankedDescendingAndStable ==
    IsOptimize =>
        /\ \A k \in 1..(Len(last.ret) - 1) :
              Score(last.ret[k]) >= Score(last.ret[k + 1])
        /\ \A k \in 1..Len(last.ret) :
              IsPrefix(WithScore(last.ret, Score(last.ret[k])),
                       WithScore(last.opportunities, Score(last.ret[k])))

\* an output with two different opportunities of one score and a third of
\* another score
C9_Witness ==
    /\ IsOptimize
    /\ \E k \in 1..(Len(last.ret) - 1) :
          /\ Score(last.ret[k]) = Score(last.ret[k + 1])
          /\ last.ret[k] # last.ret[k + 1]
    /\ \E k \in 1..(Len(last.ret) - 1) :
          Score(last.ret[k]) > Score(last.ret[k + 1])

\* C10: when run_step executes a trade, the traded opportunity is the first
\* element of the ranked list, whose score is maximal among the merged
\* opportunities that pass the Optimizer's filter in that cycle.
C10_TopRankedIsExecuted ==
    (RanToTheEnd /\ IsSome(last.trade)) =>
        LET t == Unwrap(last.trade)
            top == last.projected[1]
        IN  /\ t.market_id = top.market_id
            /\ t.arb_type = top.arb_type
            /\ t.expected_return
                  = _calculate_position(config, last.capital_in, top)
            /\ Qualifies(top)
            /\ \E i \in 1..Len(last.all_opportunities) :
                  last.all_opportunities[i] = top
            /\ \A i \in 1..Len(last.all_opportunities) :
                  Qualifies(last.all_opportunities[i]) =>
                     Score(last.all_opportunities[i]) <= Score(top)

\* a trade in a cycle that ranked two opportunities of different scores
C10_Witness ==
    /\ RanToTheEnd
    /\ IsSome(last.trade)
    /\ Len(last.projected) >= 2
    /\ Score(last.projected[1]) > Score(last.projected[2])
    /\ Unwrap(last.trade).market_id = last.projected[1].market_id
    /\ Unwrap(last.trade).market_id # last.projected[2].market_id

----------------------------------------------------------------------------
(* RiskManager with a long trade history *)

MaxTail == 4

\* the profits of n winning trades, the i-th of i cents
WinsOnly(n) == [i \in 1..n |-> i]

\* the RiskManager after update(i, cap) for i = 1..n on a new one (cap > 0,
\* n <= HistoryCap): no loss was counted, peak and low are cap, the drawdown
\* is (cap - cap) / cap, and the two metrics are those of the n profits
AfterWins(n, cap) ==
    IF n = 0 THEN DefaultRiskManager
    ELSE [metrics |-> [DefaultRiskManager.metrics EXCEPT
                          !.current_drawdown = FDiv(0, cap),
                          !.var_95 = calculate_var_95(WinsOnly(n)),
                          !.sharpe_ratio = calculate_sharpe_ratio(WinsOnly(n))],
          trade_history |-> WinsOnly(n),
          consecutive_losses |-> 0,
          daily_loss |-> 0,
          peak_capital |-> cap,
          low_capital |-> cap]

\* history lengths next to the VaR minimum (20) and next to the cap (1000)
HistStarts == {0, 17, HistoryCap - 2}

HistProfits == {0 - 20 * MoneyScale, 0 - 5 * MoneyScale, 0, 15 * MoneyScale}

\* last.log is the sequence of all profits passed to update so far
HistInit ==
    \E n \in HistStarts :
       /\ Constructed(DefaultConfig, ArbitrageDetectorNew(10, 1000),
                      StatisticalArbOptimizerNew,
                      AfterWins(n, 1000 * MoneyScale))
       /\ last = [op |-> "updates", log |-> WinsOnly(n), start |-> n]

HistUpdate ==
    /\ Len(last.log) < last.start + MaxTail
    /\ \E profit \in HistProfits :
          /\ risk' = RiskUpdate(risk, profit, 1000 * MoneyScale)
          /\ last' = [op |-> "update", log |-> Append(last.log, profit),
                      start |-> last.start]
    /\ UNCHANGED <<engine_rest, arb_detector, optimizer>>
    /\ UNCHANGED app_vars

HistNext == HistUpdate

SpecHist == HistInit /\ [][HistNext]_vars

\* C11: while the trade history holds fewer than 20 samples, the VaR95
\* metric stored by update is exactly 0.
C11_VarZeroBelowTwentySamples ==
    Len(risk.trade_history) < 20 => risk.metrics.var_95 = 0

\* 19 samples, a loss among them, VaR95 still 0
C11_Witness ==
    /\ last.op = "update"
    /\ Len(risk.trade_history) = 19
    /\ \E i \in 1..19 : risk.trade_history[i] < 0
    /\ risk.metrics.var_95 = 0

\* the last n entries of s (all of s when it is shorter)
LastN(s, n) == IF Len(s) <= n THEN s ELSE SubSeq(s, Len(s) - n + 1, Len(s))

\* C16: after n updates the trade history is exactly the last min(n, 1000)
\* profits in arrival order; its length never exceeds 1000.
C16_HistoryIsLastThousandInOrder ==
    /\ Len(risk.trade_history) <= 1000
    /\ risk.trade_history = LastN(last.log, 1000)

\* more than 1000 updates were made and the oldest profits are gone
C16_Witness ==
    /\ last.op = "update"
    /\ Len(last.log) > 1000
    /\ Len(risk.trade_history) = 1000
    /\ risk.trade_history[1] = last.log[Len(last.log) - 999]
    /\ risk.trade_history[1] # last.log[1]

----------------------------------------------------------------------------
(* risk.rs : PositionSizer *)

NegInf == 0 - PosInf

IsNaN(x) == x = NaN
IsInf(x) == x = PosInf \/ x = NegInf
Sign(x) == IF x > 0 THEN 1 ELSE IF x < 0 THEN 0 - 1 ELSE 0

\* f64 arithmetic on fixed-point numbers with NaN and the two infinities;
\* a product of two numbers in 1/scale is brought back to 1/scale
f64_mul(a, b, scale) ==
    IF IsNaN(a) \/ IsNaN(b) THEN NaN
    ELSE IF IsInf(a) \/ IsInf(b)
         THEN (IF a = 0 \/ b = 0 THEN NaN
               ELSE IF Sign(a) * Sign(b) > 0 THEN PosInf ELSE NegInf)
    ELSE (a * b) \div scale

f64_sub(a, b) ==
    IF IsNaN(a) \/ IsNaN(b) THEN NaN
    ELSE IF IsInf(a) THEN (IF a = b THEN NaN ELSE a)
    ELSE IF IsInf(b) THEN (IF b = PosInf THEN NegInf ELSE PosInf)
    ELSE a - b

f64_div(a, b) ==
    IF IsNaN(a) \/ IsNaN(b) THEN NaN
    ELSE IF IsInf(a)
         THEN (IF IsInf(b) THEN NaN
               ELSE IF Sign(a) * (IF b < 0 THEN 0 - 1 ELSE 1) > 0
                    THEN PosInf ELSE NegInf)
    ELSE IF IsInf(b) THEN 0
    ELSE FDiv(a, b)

\* f64::min and f64::max return the other operand when one is NaN
f64_min(a, b) ==
    IF IsNaN(a) THEN b ELSE IF IsNaN(b) THEN a ELSE IF a < b THEN a ELSE b

f64_max(a, b) ==
    IF IsNaN(a) THEN b ELSE IF IsNaN(b) THEN a ELSE IF a > b THEN a ELSE b

f64_le(a, b) == ~IsNaN(a) /\ ~IsNaN(b) /\ a <= b

\* PositionSizer::new; the fractions in 1/Scale, min_position in cents
PositionSizerNew(kelly_fraction, max_position_pct, min_position) ==
    [kelly_fraction |-> kelly_fraction,
     max_position_pct |-> max_position_pct,
     min_position |-> min_position]

\* variant: the early return only for strictly negative arguments
calculate_position_StrictGuard(sizer, cap, win_rate, avg_win, avg_loss, confidence) ==
    IF (~IsNaN(win_rate) /\ win_rate < 0) \/ (~IsNaN(avg_loss) /\ avg_loss < 0)
    THEN sizer.min_position
    ELSE LET win_loss_ratio == f64_div(avg_win, avg_loss)
             kelly_pct ==
                 f64_div(f64_sub(f64_mul(win_rate, win_loss_ratio, Scale),
                               f64_sub(Scale, win_rate)),
                        win_loss_ratio)
             adjusted_kelly ==
                 f64_mul(f64_mul(kelly_pct, sizer.kelly_fraction, Scale),
                        confidence, Scale)
             position ==
                 f64_mul(cap, f64_min(adjusted_kelly, sizer.max_position_pct),
                        Scale)
         IN  f64_max(position, sizer.min_position)

\* PositionSizer::calculate_position; capital and the result in cents,
\* win_rate and confidence in 1/Scale
calculate_position(sizer, cap, win_rate, avg_win, avg_loss, confidence) ==
    IF f64_le(win_rate, 0) \/ f64_le(avg_loss, 0) THEN sizer.min_position
    ELSE LET win_loss_ratio == f64_div(avg_win, avg_loss)
             kelly_pct ==
                 f64_div(f64_sub(f64_mul(win_rate, win_loss_ratio, Scale),
                               f64_sub(Scale, win_rate)),
                        win_loss_ratio)
             adjusted_kelly ==
                 f64_mul(f64_mul(kelly_pct, sizer.kelly_fraction, Scale),
                        confidence, Scale)
             position ==
                 f64_mul(cap, f64_min(adjusted_kelly, sizer.max_position_pct),
                        Scale)
         IN  f64_max(position, sizer.min_position)

\* the sizer of HftArbitrageBot::new and one without a minimum
Sizers == { PositionSizerNew(250, 50, 10 * MoneyScale),
            PositionSizerNew(250, 50, 0) }

SizerCapitals == {0 - 1000 * MoneyScale, 0, 1000 * MoneyScale, PosInf}
SizerWinRates == {0 - 100, 0, 600, 1000, NaN}
SizerAvgWins == {0, 500, 2000}
SizerAvgLosses == {0 - 1000, 0, 1000}
SizerConfidences == {0, 1000}

SizerInit ==
    /\ Constructed(DefaultConfig, ArbitrageDetectorNew(10, 1000),
                   StatisticalArbOptimizerNew, DefaultRiskManager)
    /\ last = NoCall

\* calculate_position takes &self: one call per behaviour covers every call
CalculatePosition ==
    /\ last = NoCall
    /\ \E sizer \in Sizers, cap \in SizerCapitals, win_rate \in SizerWinRates,
          avg_win \in SizerAvgWins, avg_loss \in SizerAvgLosses,
          confidence \in SizerConfidences :
          last' = [op |-> "calculate_position", sizer |-> sizer,
                   capital |-> cap, win_rate |-> win_rate,
                   avg_win |-> avg_win, avg_loss |-> avg_loss,
                   confidence |-> confidence,
                   ret |-> calculate_position(sizer, cap, win_rate, avg_win,
                                              avg_loss, confidence)]
    /\ UNCHANGED <<engine_rest, arb_detector, optimizer, risk>>
    /\ UNCHANGED app_vars

SizerNext == CalculatePosition

SpecSizer == SizerInit /\ [][SizerNext]_vars

\* C12: calculate_position returns exactly min_position when win_rate <= 0
\* or avg_loss <= 0, whatever the capital, avg_win and confidence; and no
\* result is below min_position.
C12_MinPositionIsTheFloor ==
    last.op = "calculate_position" =>
        /\ (f64_le(last.win_rate, 0) \/ f64_le(last.avg_loss, 0))
              => last.ret = last.sizer.min_position
        /\ ~IsNaN(last.ret)
        /\ last.ret >= last.sizer.min_position

\* win_rate = 0 with a negative capital, where the Kelly formula by itself
\* would give a position above the minimum
C12_Witness ==
    /\ last.op = "calculate_position"
    /\ last.win_rate = 0
    /\ last.capital < 0
    /\ last.avg_win > 0
    /\ last.avg_loss > 0
    /\ last.confidence > 0
    /\ last.ret = last.sizer.min_position

----------------------------------------------------------------------------
(* execution.rs : VwapTracker driven through update and get_vwap *)

MaxVwapUpdates == 3

\* variant: the call drains the oldest entry of the market it reads
GetVwapEffect_Consumes(hist, market_id, token_type) ==
    IF market_id \in DOMAIN hist /\ hist[market_id] # <<>>
    THEN [hist EXCEPT ![market_id] = Tail(hist[market_id])]
    ELSE hist

\* get_vwap borrows the tracker immutably (&self): the price history after
\* the call
GetVwapEffect(hist, market_id, token_type) == hist

\* n updates of the YES side of one market, the i-th at price 0.400 + i/1000
YesUpdates(market_id, n) == [i \in 1..n |-> <<market_id, "YES", 400 + i>>]

RECURSIVE VwapAfter(_, _)
\* the price history after the update calls of log, in order, on a new
\* tracker
VwapAfter(hist, log) ==
    IF log = <<>> THEN hist
    ELSE VwapAfter(VwapUpdate(hist, Head(log)[1], Head(log)[2], Head(log)[3]),
                   Tail(log))

\* numbers of earlier updates: none, or two short of the window
VwapStarts == {0, VwapWindow - 2}

VwapPrices == {400, 600}

\* last.log is the sequence of all update calls so far; last.seen maps each
\* <<instrument, side>> read since the latest update to the value returned
VwapInit ==
    \E n \in VwapStarts :
       /\ config = DefaultConfig
       /\ arb_detector = ArbitrageDetectorNew(10, 1000)
       /\ optimizer = StatisticalArbOptimizerNew
       /\ markets = <<>>
       /\ price_history = <<>>
       /\ graph_markets = <<>>
       /\ capital = DefaultConfig.initial_capital
       /\ current_step = 0
       /\ executed_trades = <<>>
       /\ vwap_history = VwapAfter(<<>>, YesUpdates("market_0", n))
       /\ risk = DefaultRiskManager
       /\ q_table = <<>>
       /\ last = [op |-> "updates", log |-> YesUpdates("market_0", n),
                  start |-> n, seen |-> <<>>]
    /\ AppStateNew(<<>>)

vwap_rest == <<config, arb_detector, optimizer, markets, price_history,
               graph_markets, capital, current_step, executed_trades, risk,
               q_table>>

\* VwapTracker::update(market_id, token_type, price)
VwUpdate ==
    /\ Len(last.log) < last.start + MaxVwapUpdates
    /\ \E market_id \in MarketIds, token_type \in TokenTypes,
          price \in VwapPrices :
          /\ vwap_history' = VwapUpdate(vwap_history, market_id, token_type,
                                        price)
          /\ last' = [op |-> "update",
                      log |-> Append(last.log,
                                     <<market_id, token_type, price>>),
                      start |-> last.start, seen |-> <<>>]
    /\ UNCHANGED vwap_rest
    /\ UNCHANGED app_vars

\* VwapTracker::get_vwap(market_id, token_type); prev is the value an
\* earlier call with the same arguments returned since the latest update
VwGet ==
    /\ \E market_id \in MarketIds, token_type \in TokenTypes :
          \E ret \in {get_vwap(vwap_history, market_id, token_type)} :
             /\ vwap_history' = GetVwapEffect(vwap_history, market_id,
                                              token_type)
             /\ last' = [op |-> "get_vwap", market_id |-> market_id,
                         token_type |-> token_type, ret |-> ret,
                         prev |-> IF <<market_id, token_type>>
                                        \in DOMAIN last.seen
                                  THEN Some(last.seen[<<market_id,
                                                        token_type>>])
                                  ELSE None,
                         log |-> last.log, start |-> last.start,
                         seen |-> [k \in DOMAIN last.seen
                                           \cup {<<market_id, token_type>>} |->
                                      IF k = <<market_id, token_type>>
                                      THEN ret ELSE last.seen[k]]]
    /\ UNCHANGED vwap_rest
    /\ UNCHANGED app_vars

VwapNext == VwUpdate \/ VwGet

SpecVwap == VwapInit /\ [][VwapNext]_vars

RECURSIVE LoggedPrices(_, _, _)
\* the prices that the update calls of log passed for one instrument and side
LoggedPrices(log, market_id, token_type) ==
    IF log = <<>> THEN <<>>
    ELSE (IF Head(log)[1] = market_id /\ Head(log)[2] = token_type
          THEN <<Head(log)[3]>> ELSE <<>>)
            \o LoggedPrices(Tail(log), market_id, token_type)

\* C14: for every instrument and side, get_vwap is the mean of the last
\* min(n, window) prices that update was given for that instrument and side,
\* and it is absent only when no such price was ever given.
C14_WindowPerInstrumentAndSide ==
    \A market_id \in MarketIds, token_type \in TokenTypes :
       LET prices == LoggedPrices(last.log, market_id, token_type)
           window == LastN(prices, VwapWindow)
       IN  get_vwap(vwap_history, market_id, token_type) =
              IF prices = <<>> THEN None
              ELSE Some(SumSeq(window) \div Len(window))

----------------------------------------------------------------------------
(* arbitrage.rs : _extract_cycle, one loop iteration per step *)

CycleNodes == { FormatNode("graph_0", "YES"), FormatNode("graph_0", "NO"),
                FormatNode("graph_1", "YES") }

\* every predecessor map over the nodes: a key may be missing, map to None
\* or map to a node
PredMaps ==
    UNION { [D -> {None} \cup { Some(n) : n \in CycleNodes }] :
              D \in SUBSET CycleNodes }

\* the graph of one market: YES -> NO and NO -> YES, with the two weights
TwoNodeGraph(w) ==
    [n \in { FormatNode("graph_0", t) : t \in TokenTypes } |->
        <<FormatNode("graph_0", OtherToken(n[2])),
          IF n[2] = "YES" THEN w[1] ELSE w[2]>>]

\* pairs of edge weights of negative sum, in 1/Scale
TwoNodeWeights ==
    { <<0 - 100, 0 - 100>>, <<100, 0 - 300>>, <<0 - 300, 100>>,
      <<0, 0 - 1>>, <<0 - 223, 0 - 95>> }

\* the loop state as _extract_cycle(pred, start) is entered
ExtractEntry(origin, pred, start) ==
    [op |-> "_extract_cycle", origin |-> origin, pred |-> pred,
     start |-> start, cycle |-> <<>>, visited |-> {},
     current |-> Some(start), pc |-> "loop", ret |-> None]

\* _extract_cycle entered with any predecessor map and start node, or from
\* the check pass of _mmbf_algorithm on a two-node graph
CycleInit ==
    /\ Constructed(DefaultConfig, ArbitrageDetectorNew(10, 1000),
                   StatisticalArbOptimizerNew, DefaultRiskManager)
    /\ \/ \E pred \in PredMaps, start \in CycleNodes :
             last = ExtractEntry([kind |-> "any"], pred, start)
       \/ \E w \in TwoNodeWeights :
             \E graph \in {TwoNodeGraph(w)} :
                \E ord \in Orders(DOMAIN graph), s \in DOMAIN graph,
                   u \in DOMAIN graph :
                   \E st \in {RelaxRounds(graph, ord, MmbfInit(graph, s),
                                          Cardinality(DOMAIN graph))} :
                      /\ FAdd(st.dist[u], graph[u][2]) < st.dist[graph[u][1]]
                      /\ last = ExtractEntry([kind |-> "mmbf", graph |-> graph,
                                              ord |-> ord, from |-> s],
                                             st.pred, graph[u][1])

\* one iteration of the while-let loop with its exits
ExtractStep ==
    /\ last.op = "_extract_cycle"
    /\ last.pc = "loop"
    /\ \E curr \in {Unwrap(last.current)} :
          IF curr \in last.visited
          THEN last' = [last EXCEPT !.pc = "done",
                                    !.ret = ClosedCycle(last.cycle, curr)]
          ELSE IF curr \notin DOMAIN last.pred \/ last.pred[curr] = None
               THEN last' = [last EXCEPT !.pc = "done", !.ret = None,
                                         !.visited = @ \cup {curr},
                                         !.cycle = Append(@, curr),
                                         !.current = None]
               ELSE last' = [last EXCEPT !.visited = @ \cup {curr},
                                         !.cycle = Append(@, curr),
                                         !.current = last.pred[curr]]
    /\ UNCHANGED <<engine_rest, arb_detector, optimizer, risk>>
    /\ UNCHANGED app_vars

CycleNext == ExtractStep

\* the loop runs in one thread and an iteration that can run does run
SpecCycle == CycleInit /\ [][CycleNext]_vars /\ WF_vars(ExtractStep)

IsTwoCycle(c) == Len(c) = 2 /\ c[1] # c[2]

\* every iteration so far pushed a node that had not been visited, the
\* finished loop returns what _extract_cycle returns, and a call made by the
\* check pass on a two-node graph of negative weight sum returns two
\* distinct nodes, for at least one edge of every such graph
ExtractionSafe ==
    /\ Len(last.cycle) = Cardinality(last.visited)
    /\ \A i \in 1..Len(last.cycle) : last.cycle[i] \in last.visited
    /\ last.pc = "done" => last.ret = _extract_cycle(last.pred, last.start)
    /\ (last.pc = "done" /\ last.origin.kind = "mmbf") =>
          IsSome(last.ret) /\ IsTwoCycle(Unwrap(last.ret))
    /\ \A w \in TwoNodeWeights :
          \A ord \in Orders(DOMAIN TwoNodeGraph(w)) :
             LET cycles == _mmbf_algorithm(TwoNodeGraph(w), ord)
             IN  /\ cycles # <<>>
                 /\ \A k \in 1..Len(cycles) : IsTwoCycle(cycles[k])

\* C15: _extract_cycle terminates for every predecessor map and start node,
\* each iteration visiting a new node or stopping; on a two-node
\* bidirectional graph whose weights sum to a negative value the cycle
\* returned has exactly two distinct nodes.
C15_ExtractionTerminatesWithTwoNodeCycle ==
    /\ <>(last.pc = "done")
    /\ []ExtractionSafe

\* the extraction called by the check pass has returned a two-node cycle
C15_Witness ==
    /\ last.op = "_extract_cycle"
    /\ last.pc = "done"
    /\ last.origin.kind = "mmbf"
    /\ IsSome(last.ret)
    /\ IsTwoCycle(Unwrap(last.ret))
    /\ Len(last.cycle) = 2

----------------------------------------------------------------------------
(* TradeExecutor::execute_arbitrage called directly on the executor *)

\* liquidity 10000 (the 10% limit is 1000), 100 (limit exactly 10) and 99
ExecOpportunities ==
    { Opportunity("market_a", 4000, 500, 10000),
      Opportunity("market_b", 4000, 500, 100),
      Opportunity("market_c", 4000, 500, 99) }

\* capital arguments besides the capital of the engine
ExecCapitals == {19 * MoneyScale, 20 * MoneyScale}

MaxCalls == 2

\* TradeExecutor::execute_arbitrage(opportunity, capital) called on the
\* public executor field, with arguments from the given sets: the ledger is
\* all it can change
ExecuteArbitrageWith(opportunities, capitals, slippages, max_len) ==
    /\ Len(executed_trades) < max_len
    /\ \E opportunity \in opportunities, cap \in capitals,
          slip \in slippages :
          \E trade \in {execute_arbitrage(config, executed_trades,
                                          vwap_history, opportunity, cap,
                                          slip)} :
             /\ (~IsSome(trade) => slip = 0)
             /\ executed_trades' = IF IsSome(trade)
                                   THEN Append(executed_trades, Unwrap(trade))
                                   ELSE executed_trades
             /\ last' = [op |-> "execute_arbitrage",
                         opportunity |-> opportunity, capital |-> cap,
                         slippage |-> slip, ledger_before |-> executed_trades,
                         trade |-> trade]
    /\ UNCHANGED <<config, arb_detector, optimizer, markets, price_history,
                   graph_markets, capital, current_step, vwap_history, risk,
                   q_table>>
    /\ UNCHANGED app_vars

\* the executor alone, over all the arguments
ExecuteArbitrageCall ==
    ExecuteArbitrageWith(ExecOpportunities, ExecCapitals \cup {capital},
                         Slippages, MaxCalls)

ExecNext == ExecuteArbitrageCall

SpecExec == Init /\ [][ExecNext]_vars

\* a direct call between the steps of the engine
LedgerCall ==
    ExecuteArbitrageWith({Opportunity("market_a", 4000, 500, 10000)},
                         {capital}, {0}, MaxSteps)

LedgerNext == FetchMarkets \/ RunStepOk \/ LedgerCall

SpecLedger == Init /\ [][LedgerNext]_vars

\* C17: no call removes or changes a ledger record: the ledger before a step
\* is a prefix of the ledger after it, and the trade identifiers of the
\* records are pairwise distinct.
C17_LedgerIsAppendOnly ==
    [][/\ IsPrefix(executed_trades, executed_trades')
       /\ \A i, j \in 1..Len(executed_trades') :
             i # j => executed_trades'[i].trade_id
                         # executed_trades'[j].trade_id]_vars

\* a ledger with a record of a direct call and a record of run_step
C17_Witness ==
    /\ Len(executed_trades) >= 2
    /\ executed_trades[1].trade_id # executed_trades[2].trade_id
    /\ \E i \in 1..Len(executed_trades) :
          executed_trades[i].market_id \in MarketIds
    /\ \E i \in 1..Len(executed_trades) :
          executed_trades[i].market_id \notin MarketIds

\* C18: the position is min(capital * max_position_size, liquidity * 0.1);
\* below 10 currency units execute_arbitrage returns no trade and the ledger
\* stays as it was; otherwise exactly one record is appended, with a YES leg
\* and a NO leg in that order, both Buy, each holding half of the position.
C18_PositionRuleAndTwoHalfLegs ==
    last.op = "execute_arbitrage" =>
        LET capital_limit ==
                (last.capital * config.max_position_size) \div PosScale
            liquidity_limit == (last.opportunity.liquidity * MoneyScale) \div 10
            position == IF capital_limit < liquidity_limit
                        THEN capital_limit ELSE liquidity_limit
        IN  IF position < 10 * MoneyScale
            THEN /\ last.trade = None
                 /\ executed_trades = last.ledger_before
            ELSE /\ IsSome(last.trade)
                 /\ executed_trades
                       = Append(last.ledger_before, Unwrap(last.trade))
                 /\ LET legs == Unwrap(last.trade).legs
                    IN  /\ Len(legs) = 2
                        /\ legs[1].token_type = "YES"
                        /\ legs[2].token_type = "NO"
                        /\ \A k \in 1..2 :
                              /\ legs[k].direction = "Buy"
                              /\ legs[k].market_id = last.opportunity.market_id
                              /\ 2 * legs[k].price * legs[k].quantity.num
                                    = position * legs[k].quantity.den

\* a trade at the position limit of exactly 10 set by the liquidity
C18_Witness ==
    /\ last.op = "execute_arbitrage"
    /\ IsSome(last.trade)
    /\ last.opportunity.liquidity = 100
    /\ Unwrap(last.trade).expected_return = 10 * MoneyScale
    /\ Len(executed_trades) = Len(last.ledger_before) + 1

----------------------------------------------------------------------------
(* rl.rs : QLearningOptimizer driven through get_action and update *)

MaxRlUpdates == 2

\* z-scores of the two buckets run_step uses, and its momentum
RlZScores == {500, 2500}

\* action arguments of update: usize, so also values beyond the three slots
RlUpdateActions == {1, 7}

RlRewards == {Scale, 0 - Scale}

RlInit ==
    /\ Constructed(DefaultConfig, ArbitrageDetectorNew(10, 1000),
                   StatisticalArbOptimizerNew, DefaultRiskManager)
    /\ last = [op |-> "new", updates |-> 0]

rl_rest == <<config, arb_detector, optimizer, markets, price_history,
             graph_markets, capital, current_step, executed_trades,
             vwap_history, risk>>

\* the increasing order of the keys of an action map
RECURSIVE Ascending(_)
Ascending(S) ==
    IF S = {} THEN <<>>
    ELSE LET lo == CHOOSE x \in S : \A y \in S : x <= y
         IN  <<lo>> \o Ascending(S \ {lo})

\* get_action(z_score, momentum, arb_available): the state is inserted when
\* it is new; draw is the sample compared with epsilon, rnd the random
\* action, ord the order in which the HashMap yields the actions
RlGetAction ==
    /\ \E z_score \in RlZScores, draw \in {0, 500}, rnd \in Actions :
          \E state \in {get_state_key(z_score, 10, TRUE)} :
             \E qt1 \in {QInit(q_table, state)} :
                \E ord \in Orders(DOMAIN qt1[state]) :
                   /\ draw < Epsilon => ord = Ascending(DOMAIN qt1[state])
                   /\ draw >= Epsilon => rnd = 0
                   /\ q_table' = qt1
                   /\ last' = [op |-> "get_action", state |-> state,
                               explored |-> draw < Epsilon,
                               actions |-> qt1[state], ord |-> ord,
                               updates |-> last.updates,
                               ret |-> get_action(q_table, z_score, 10, TRUE,
                                                  draw, rnd, ord)]
    /\ UNCHANGED rl_rest
    /\ UNCHANGED app_vars

\* update(z_score, momentum, arb_available, action, reward)
RlUpdate ==
    /\ last.updates < MaxRlUpdates
    /\ \E z_score \in RlZScores, action \in RlUpdateActions,
          reward \in RlRewards :
          /\ q_table' = QUpdate(q_table, z_score, 10, TRUE, action, reward)
          /\ last' = [op |-> "update",
                      state |-> get_state_key(z_score, 10, TRUE),
                      action |-> action, reward |-> reward,
                      updates |-> last.updates + 1]
    /\ UNCHANGED rl_rest
    /\ UNCHANGED app_vars

RlNext == RlGetAction \/ RlUpdate

SpecRl == RlInit /\ [][RlNext]_vars

\* C19: a get_action that does not explore returns an action of the highest
\* stored value of the state, and among several such actions the one of the
\* lowest index (action 0 when the state is new).
C19_ExploitPicksLowestIndexOfTheBest ==
    (last.op = "get_action" /\ ~last.explored) =>
        LET best == { a \in DOMAIN last.actions :
                        \A b \in DOMAIN last.actions :
                           last.actions[a] >= last.actions[b] }
        IN  /\ last.ret \in best
            /\ \A a \in best : last.ret <= a

\* C20: whatever the table holds and whichever branch is taken, get_action
\* returns 0, 1 or 2.
C20_ActionIsOneOfThree ==
    last.op = "get_action" => last.ret \in {0, 1, 2}

----------------------------------------------------------------------------
(* lib.rs : run_step of an engine whose policy table already holds values *)

\* the table after get_action for the state of z_score and then
\* update(z_score, 0.01, true, action, reward) on the public rl_agent
Learned(qt, z_score, action, reward) ==
    QUpdate(QInit(qt, get_state_key(z_score, 10, TRUE)), z_score, 10, TRUE,
            action, reward)

\* the table of a new engine, and the table after action 1 was rewarded in
\* the two states run_step visits
PolicyTables ==
    { <<>>, Learned(Learned(<<>>, 2500, 1, Scale), 500, 1, Scale) }

FeedbackInit ==
    /\ \E cfg \in Configs, qt \in PolicyTables :
          /\ config = cfg
          /\ arb_detector =
                ArbitrageDetectorNew(cfg.min_profit_threshold, 1000)
          /\ capital = cfg.initial_capital
          /\ q_table = qt
    /\ optimizer = StatisticalArbOptimizerNew
    /\ markets = <<>>
    /\ price_history = <<>>
    /\ graph_markets = <<>>
    /\ current_step = 0
    /\ executed_trades = <<>>
    /\ vwap_history = <<>>
    /\ risk = DefaultRiskManager
    /\ last = NoCall
    /\ AppStateNew(<<>>)

FeedbackNext == FetchMarkets \/ RunStepOk

SpecFeedback == FeedbackInit /\ [][FeedbackNext]_vars

\* let z_score = if (1.0 - opportunity.sum_price) > 0.02 { 2.5 } else { 0.5 }
StepZScore(opportunity) ==
    IF Scale - opportunity.sum_price > 20 THEN 2500 ELSE 500

\* the action values of a state as update finds them after get_action
ValuesAt(qt, state) ==
    IF state \in DOMAIN qt THEN qt[state] ELSE [a \in Actions |-> 0]

\* C21: a run_step that executed a trade moves one value Q(s,a) of the state
\* s of its top opportunity to Q(s,a) + alpha * (r + gamma * max Q(s,.) -
\* Q(s,a)), computed from the values before the step, with r = +1 when the
\* profit of the trade is positive and r = -1 otherwise; the other values of
\* s and the entries of every other state stay as they were.
C21_UpdateIsOneStepQLearning ==
    [][(last'.op = "run_step" /\ last'.ok /\ IsSome(last'.trade)) =>
          LET s == get_state_key(StepZScore(last'.projected[1]), 10, TRUE)
              r == IF Unwrap(last'.trade).profit > 0
                   THEN Scale ELSE 0 - Scale
              old == ValuesAt(q_table, s)
              best == MaxOf({ old[a] : a \in DOMAIN old })
          IN  /\ DOMAIN q_table' = DOMAIN q_table \cup {s}
              /\ \A k \in DOMAIN q_table \ {s} : q_table'[k] = q_table[k]
              /\ DOMAIN q_table'[s] = DOMAIN old
              /\ \E a \in DOMAIN old :
                    /\ q_table'[s][a] =
                          old[a] + (Alpha * (r + (Gamma * best) \div Scale
                                               - old[a])) \div Scale
                    /\ \A b \in DOMAIN old \ {a} : q_table'[s][b] = old[b]]_vars

\* a trade was fed back into a state that holds a learned positive value
C21_Witness ==
    /\ last.op = "run_step" /\ last.ok /\ IsSome(last.trade)
    /\ LET s == get_state_key(StepZScore(last.projected[1]), 10, TRUE)
       IN  /\ \E a \in DOMAIN q_table[s] : q_table[s][a] > 0
           /\ \E a \in DOMAIN q_table[s] : q_table[s][a] < 0

\* C22: no step of the engine removes a state key from the policy table, and
\* every entry of the table holds exactly the action slots 0, 1 and 2.
C22_TableGrowsWithThreeSlots ==
    [][/\ DOMAIN q_table \subseteq DOMAIN q_table'
       /\ \A k \in DOMAIN q_table' : DOMAIN q_table'[k] = {0, 1, 2}]_vars

\* run_step added a state to a table that was empty at construction, and
\* updated one of its three slots
C22_Witness ==
    /\ last.op = "run_step" /\ last.ok /\ IsSome(last.trade)
    /\ DOMAIN q_table # {}
    /\ \A k \in DOMAIN q_table : \A a \in Actions : q_table[k][a] <= 0
    /\ \E k \in DOMAIN q_table : \E a \in Actions : q_table[k][a] < 0

\* what one pass through run_step decides: the ranked opportunities, the
\* gate, the trade with its size and legs, and the change of capital
StepOutcome(l) ==
    [projected |-> l.projected, gate |-> l.gate, trade |-> l.trade,
     profit |-> l.profit]

\* the passes through run_step from the current state, one for each choice
\* of the random draws and of the action act the policy returns
StepOutcomes(act) ==
    [d \in CycleDraws(DOMAIN markets) \X Orders(DOMAIN markets) \X Slippages |->
        StepOutcome(RunStepLocals(d[1], d[2], <<>>, d[3], act))]

\* some draws make the step execute a trade
CanExecute ==
    \E d \in DOMAIN StepOutcomes(0) : IsSome(StepOutcomes(0)[d].trade)

\* with the same snapshots and draws, two answers of the policy give two
\* different outcomes of the step
PolicyInfluences ==
    \E a1, a2 \in Actions : StepOutcomes(a1) # StepOutcomes(a2)

\* C23: from a state whose policy table holds learned values and from which
\* run_step can execute a trade, the opportunity selected, the size, the
\* trade or the capital of the step depends on what the policy answers.
C23_PolicyInfluencesDecisions ==
    (markets # <<>> /\ current_step < MaxSteps /\ q_table # <<>>
        /\ CanExecute) => PolicyInfluences

----------------------------------------------------------------------------
(* risk.rs : the counters and the capital range kept by update *)

\* the length of the longest suffix of s whose entries are all negative
RECURSIVE NegSuffix(_)
NegSuffix(s) ==
    IF s = <<>> \/ s[Len(s)] >= 0 THEN 0
    ELSE 1 + NegSuffix(SubSeq(s, 1, Len(s) - 1))

\* C24: after an update the loss streak is the length of the longest
\* all-negative suffix of the updates so far (a profit of zero ends it), and
\* the update adds |p| to the daily loss exactly when p < 0; reset_daily sets
\* the daily loss to zero and leaves the streak, so the daily loss is the sum
\* of the loss magnitudes since the last reset.
C24_StreakAndDailyLoss ==
    [][/\ last'.op = "update" =>
            /\ risk'.consecutive_losses = NegSuffix(risk'.trade_history)
            /\ risk'.daily_loss =
                  risk.daily_loss + (IF last'.profit < 0
                                     THEN 0 - last'.profit ELSE 0)
       /\ last'.op = "reset_daily" =>
            /\ risk'.daily_loss = 0
            /\ risk'.consecutive_losses = risk.consecutive_losses]_vars

\* two losses after a zero profit, with a reset between the two losses
C24_Witness ==
    /\ last.op = "update"
    /\ Len(risk.trade_history) >= 4
    /\ risk.consecutive_losses = 2
    /\ risk.trade_history[Len(risk.trade_history) - 2] = 0
    /\ risk.daily_loss = 20 * MoneyScale

\* C25: the peak never decreases, and after an update with a positive
\* capital c the trough is at most c, c is at most the peak, and the stored
\* drawdown is (peak - c) / peak, at least 0 and below 1.
C25_CapitalBetweenTroughAndPeak ==
    [][/\ risk'.peak_capital >= risk.peak_capital
       /\ (last'.op = "update" /\ last'.capital > 0) =>
             LET c == last'.capital
                 peak == risk'.peak_capital
                 dd == risk'.metrics.current_drawdown
             IN  /\ risk'.low_capital <= c
                 /\ c <= peak
                 /\ dd = ((peak - c) * Scale) \div peak
                 /\ 0 <= dd /\ dd < Scale]_vars

\* an update with capital 850 below the peak of 1000 after an update with
\* capital zero: the drawdown is 0.15
C25_Witness ==
    /\ last.op = "update" /\ last.capital = 850 * MoneyScale
    /\ risk.peak_capital = 1000 * MoneyScale
    /\ risk.low_capital = 0
    /\ risk.metrics.current_drawdown = 150

----------------------------------------------------------------------------
(* lib.rs : the drawdown the engine reports *)

\* the capital after the first k updates of the Risk Manager: run_step adds
\* each profit to the capital and then records it (lib.rs:160-164)
CapitalAfter(k) ==
    config.initial_capital + SumRange(risk.trade_history, 1, k)

\* the highest capital the engine has held, its initial capital included
HighestCapital ==
    LET held == { CapitalAfter(k) : k \in 0..Len(risk.trade_history) }
    IN  CHOOSE p \in held : \A q \in held : q <= p

\* C26: in every state of the engine the stored drawdown is (P - c) / P for
\* the current capital c and the highest capital P held so far, the initial
\* capital included.
C26_DrawdownFromHighestCapital ==
    /\ capital = CapitalAfter(Len(risk.trade_history))
    /\ risk.metrics.current_drawdown =
          FDiv(HighestCapital - capital, HighestCapital)

----------------------------------------------------------------------------
(* arbitrage.rs : what the Graph Scanner makes of a detected cycle *)

\* the cycles the relaxation of the current graph detects, for every
\* iteration order of the node map
DetectedCycles ==
    LET graph == _build_price_graph(graph_markets)
    IN  UNION { { _mmbf_algorithm(graph, ord)[i] :
                    i \in 1..Len(_mmbf_algorithm(graph, ord)) } :
                ord \in Orders(DOMAIN graph) }

\* C27: every cycle the relaxation detects has a product of prices below 1
\* and converts to an opportunity with the positive profit 1 - product.
C27_DetectedCycleIsProfitable ==
    \A cycle \in DetectedCycles :
       /\ CycleProduct(graph_markets, cycle, Scale) < Scale
       /\ IsSome(_cycle_to_opportunity(graph_markets, cycle))
       /\ Unwrap(_cycle_to_opportunity(graph_markets, cycle)).profit
             = Scale - CycleProduct(graph_markets, cycle, Scale)
       /\ Unwrap(_cycle_to_opportunity(graph_markets, cycle)).profit > 0

----------------------------------------------------------------------------
(* risk.rs : the value at risk reported over the history *)

\* C28: with at least 20 samples in the history, some of them losses, the
\* stored VaR95 is the magnitude of a recorded loss, and at most 5% of the
\* recorded losses have a greater magnitude.
C28_VarCoversNinetyFivePercent ==
    LET losses == SelectSeq(risk.trade_history, IsLoss)
        var_95 == risk.metrics.var_95
        exceeding == { i \in 1..Len(losses) : 0 - losses[i] > var_95 }
    IN  (Len(risk.trade_history) >= 20 /\ losses # <<>>
            /\ Len(last.log) > last.start) =>
           /\ \E i \in 1..Len(losses) : var_95 = 0 - losses[i]
           /\ 100 * Cardinality(exceeding) <= 5 * Len(losses)

----------------------------------------------------------------------------
(* lib.rs : the cycles of run_step that end before or in execution *)

\* snapshots of a data provider: market_0 is 0.8% below
\* parity, which the detector reports and the Optimizer filters out, and
\* market_1 is at parity or a deep market 4% below it
MarginalMarkets(id) ==
    IF id = "market_0"
    THEN { MarketData(id, 496, 496, 5000, 5000, 10000) }
    ELSE { MarketData(id, 500, 500, 5000, 5000, 10000),
           MarketData(id, 480, 480, 49900, 49900, 50000) }

\* market_manager.add_market(m), called by the owner of the engine for one
\* snapshot per identifier before the first step
AddMarginalMarkets ==
    /\ markets = <<>>
    /\ current_step = 0
    /\ \E ms \in { f \in [MarketIds -> UNION { MarginalMarkets(id) :
                                                 id \in MarketIds }] :
                     \A id \in MarketIds : f[id] \in MarginalMarkets(id) } :
          /\ markets' = ms
          /\ price_history' = [id \in MarketIds |-> <<PriceSnapshot(ms[id])>>]
    /\ UNCHANGED <<config, arb_detector, optimizer, graph_markets, capital,
                   current_step, executed_trades, vwap_history, risk, q_table,
                   last>>
    /\ UNCHANGED app_vars

QuietNext == AddMarginalMarkets \/ ResetDaily \/ RunStepOk

SpecQuiet == Init /\ [][QuietNext]_vars

\* C29: a run_step that returns before execution reports no trade and no
\* profit, leaves capital, ledger, risk state and policy table as they were,
\* and reports 0 opportunities when nothing was detected and the number of
\* merged opportunities when the Optimizer output is empty or the gate is
\* closed.
C29_EarlyReturnIsZeroActivity ==
    [][(current_step' = current_step + 1 /\ last'.op = "run_step"
           /\ last'.ok /\ last'.gate # "open") =>
          /\ last'.result.trades = 0
          /\ last'.result.profit = 0
          /\ last'.result.capital = capital
          /\ last'.trade = None
          /\ capital' = capital
          /\ executed_trades' = executed_trades
          /\ risk' = risk
          /\ q_table' = q_table
          /\ last'.result.opportunities =
                IF last'.all_opportunities = <<>> THEN 0
                ELSE Len(last'.all_opportunities)
          /\ (last'.gate = "closed" =>
                 last'.all_opportunities # <<>> /\ last'.projected # <<>>)]_vars

\* the Optimizer left nothing of the detected opportunities, after a cycle
\* that had traded
C29_Witness ==
    /\ last.op = "run_step" /\ last.ok /\ last.gate = "skipped"
    /\ last.all_opportunities # <<>> /\ last.projected = <<>>
    /\ last.result.opportunities > 0

\* C30: a run_step whose execution is rejected because the position is below
\* 10 leaves the capital, the trade history, the loss streak and the daily
\* loss as they were before the cycle.
C30_RejectedExecutionLeavesRiskState ==
    [][(current_step' = current_step + 1 /\ last'.op = "run_step"
           /\ last'.ok /\ last'.gate = "open" /\ last'.trade = None) =>
          /\ capital' = capital
          /\ risk'.trade_history = risk.trade_history
          /\ risk'.consecutive_losses = risk.consecutive_losses
          /\ risk'.daily_loss = risk.daily_loss]_vars

----------------------------------------------------------------------------
(* execution.rs, lib.rs : the profit of an executed trade *)

\* executor.vwap_tracker.update(market_id, token_type, 0.3) on the public
\* tracker before the first step, once per market side at most: the legs of
\* a later trade are then priced at 0.3 instead of the default 0.5
RecordPrice ==
    /\ current_step = 0
    /\ \E market_id \in {"market_1"}, token_type \in TokenTypes :
          /\ market_id \in DOMAIN vwap_history =>
                PricesOf(vwap_history[market_id], token_type) = <<>>
          /\ vwap_history' = VwapUpdate(vwap_history, market_id, token_type,
                                        300)
    /\ UNCHANGED <<config, arb_detector, optimizer, markets, price_history,
                   graph_markets, capital, current_step, executed_trades,
                   risk, q_table, last>>
    /\ UNCHANGED app_vars

TradeNext == FetchMarkets \/ RecordPrice \/ RunStepOk

SpecTrade == Init /\ [][TradeNext]_vars

\* slippage * position of a trade record, rounded as actual_return is
SlippageCost(t) ==
    (t.expected_return * (t.slippage_pct \div 100)) \div SlipScale

----------------------------------------------------------------------------
(* lib.rs, risk.rs : the closed gate under run_step alone *)

\* C32: when the gate is closed, a step of the engine leaves the capital,
\* the ledger and the risk state as they are, and so leaves the gate closed:
\* without an outside reset_daily or update the closed gate is never left.
C32_ClosedGateIsAbsorbing ==
    [][~can_trade(risk, capital) =>
          /\ capital' = capital
          /\ executed_trades' = executed_trades
          /\ risk' = risk
          /\ ~can_trade(risk', capital')]_vars

\* a cycle found opportunities and the gate closed by the loss of the cycle
\* before it
C32_Witness ==
    /\ last.op = "run_step" /\ last.ok /\ last.gate = "closed"
    /\ last.projected # <<>>
    /\ ~can_trade(risk, capital)
    /\ executed_trades # <<>>

----------------------------------------------------------------------------
(* execution.rs : the money one trade commits *)

\* C33: the total_investment of a trade executed by run_step is at most the
\* capital the engine held when it executed the trade.
C33_InvestmentWithinCapital ==
    (last.op = "run_step" /\ last.ok /\ IsSome(last.trade)) =>
        Unwrap(last.trade).total_investment <= last.capital_in

----------------------------------------------------------------------------
(* arbitrage.rs, optimization.rs : graph opportunities and the ledger *)

\* snapshots handed to graph_detector.add_market: the pair of prices whose
\* product is above 1 and a pair whose product is 0.36
WideGraphSnapshots ==
    GraphSnapshots
    \cup { MarketData(id, 900, 400, 5000, 5000, 10000) : id \in GraphMarketIds }

\* graph_detector.add_market(market)
AddGraphSnapshot ==
    /\ \E m \in WideGraphSnapshots :
          /\ ~(m.id \in DOMAIN graph_markets /\ graph_markets[m.id] = m)
          /\ graph_markets' = [id \in DOMAIN graph_markets \cup {m.id} |->
                                  IF id = m.id THEN m ELSE graph_markets[id]]
    /\ UNCHANGED <<config, arb_detector, optimizer, markets, price_history,
                   capital, current_step, executed_trades, vwap_history, risk,
                   q_table, last>>
    /\ UNCHANGED app_vars

\* HftArbitrageBot::new with the configuration of the end-to-end scenario
GraphInit ==
    /\ Constructed(BotConfig(1000 * MoneyScale, 5, 5),
                   ArbitrageDetectorNew(5, 1000), StatisticalArbOptimizerNew,
                   DefaultRiskManager)
    /\ last = NoCall

GraphNext == FetchMarkets \/ AddGraphSnapshot \/ RunStepOk

SpecGraph == GraphInit /\ [][GraphNext]_vars

\* what _cycle_to_opportunity makes of the walks over one or two nodes of
\* the current graph, detected by the relaxation or not
GraphOpportunities ==
    LET nodes == DOMAIN _build_price_graph(graph_markets)
        walks == { <<n>> : n \in nodes } \cup (nodes \X nodes)
    IN  { Unwrap(_cycle_to_opportunity(graph_markets, w)) :
            w \in { c \in walks :
                      IsSome(_cycle_to_opportunity(graph_markets, c)) } }

\* C34: every opportunity the Graph Scanner can build carries liquidity 0 and
\* does not pass the Optimizer, no ranked list of run_step holds a graph
\* opportunity, and every ledger record is of the kind YesNoSimple.
C34_NoGraphTradeInLedger ==
    /\ \A o \in GraphOpportunities :
          /\ o.arb_type = "GraphArbitrage"
          /\ o.liquidity = 0
          /\ optimize_arbitrage_pairs(optimizer, <<o>>, capital) = <<>>
    /\ (last.op = "run_step" /\ last.ok) =>
          \A i \in 1..Len(last.projected) :
             last.projected[i].arb_type = "YesNoSimple"
    /\ \A i \in 1..Len(executed_trades) :
          executed_trades[i].arb_type = "YesNoSimple"

\* a trade was executed while the graph held a market whose walk converts
\* to an opportunity with a profit of 64%
C34_Witness ==
    /\ last.op = "run_step" /\ last.ok /\ IsSome(last.trade)
    /\ executed_trades # <<>>
    /\ \E o \in GraphOpportunities : o.profit = 640

----------------------------------------------------------------------------
(* lib.rs : the win rate of the cycle summary *)

\* successful / total_trades of run_simulation (lib.rs:211-222), in 1/Scale
SimulationWinRate(ledger) ==
    LET successful == Cardinality({ i \in 1..Len(ledger) :
                                      ledger[i].profit > 0 })
    IN  IF Len(ledger) > 0 THEN (successful * Scale) \div Len(ledger) ELSE 0

\* C35: the win_rate of every cycle summary is the fraction of the ledger's
\* trades with a positive profit, 0 for an empty ledger, and lies in [0, 1].
C35_WinRateIsFractionOfWins ==
    (last.op = "run_step" /\ last.ok) =>
        /\ last.result.win_rate = SimulationWinRate(executed_trades)
        /\ 0 <= last.result.win_rate
        /\ last.result.win_rate <= Scale

-----------------------------------------------------------------------------
(***************************************************************************)
(* api_server.rs : the request handlers and the simulate_trading task.    *)
(* A handler or the task takes one step to acquire a mutex (the step      *)
(* waits while another holds it) and one step for the code it runs under  *)
(* the guard up to the release.  The body of a response is not kept.  The *)
(* interval of the task is abstract: a tick is a step that can happen     *)
(* whenever the task awaits it.                                           *)
(***************************************************************************)

\* requests one run of the server receives
MaxRequests == 3

\* simulated trades after which the interval stops elapsing for a running
\* bot
MaxSimTrades == 1

Task(i) == <<"task", i>>

Worker(w) == <<"worker", w>>

\* <<position before lock(), the mutex, position under the guard>>
LockPoints ==
    { <<"lock_running", "bot_state", "check_running">>,
      <<"lock_markets", "markets", "read_markets">>,
      <<"lock_balance", "bot_state", "read_balance">>,
      <<"lock_update", "bot_state", "update">>,
      <<"lock_trades", "trades", "push">>,
      <<"lock_status", "bot_state", "status">>,
      <<"lock_control", "bot_state", "control">>,
      <<"lock_get_trades", "trades", "get_trades">>,
      <<"lock_get_markets", "markets", "get_markets">>,
      <<"lock_clear", "trades", "clear">>,
      <<"lock_reset", "bot_state", "reset">> }

\* Mutex::lock by process p at position pc: granted only while free
Lock(p, pc) ==
    \E e \in LockPoints :
       /\ e[1] = pc
       /\ mutex[e[2]] = None
       /\ mutex' = [mutex EXCEPT ![e[2]] = Some(p)]

\* the position that follows the lock() of position pc
Locked(pc) == (CHOOSE e \in LockPoints : e[1] = pc)[3]

\* the guards of p are dropped
Unlock(p) == mutex' = [m \in Mutexes |-> IF mutex[m] = Some(p) THEN None ELSE mutex[m]]

\* the future that tokio::spawn(simulate_trading(..)) creates
NewTask == [pc |-> "tick", available_markets |-> <<>>, trade |-> None]

\* the request bodies of POST /api/control; trade_frequency only sets the
\* period of the interval
ControlRequests ==
    { [handler |-> "control_bot", action |-> "start", initial_balance |-> None],
      [handler |-> "control_bot", action |-> "start", initial_balance |-> Some(5000 * MoneyScale)],
      [handler |-> "control_bot", action |-> "stop", initial_balance |-> None],
      [handler |-> "control_bot", action |-> "pause", initial_balance |-> None] }

Get(handler) == [handler |-> handler, action |-> "", initial_balance |-> None]

\* the routes of start_api_server
Requests ==
    ControlRequests \cup
    { Get("get_bot_status"), Get("get_trades"), Get("get_markets"), Get("clear_trades") }

\* the first lock() of each handler
FirstLock(handler) ==
    CASE handler = "get_bot_status" -> "lock_status"
      [] handler = "control_bot" -> "lock_control"
      [] handler = "get_trades" -> "lock_get_trades"
      [] handler = "get_markets" -> "lock_get_markets"
      [] handler = "clear_trades" -> "lock_clear"

\* outcomes of the random draws of one simulated trade: the side, a gain
\* of 10% or a loss of 5% of the amount, an arbitrage profit of 0.5% of the
\* amount or none
TradeDraws ==
    { [action |-> "BUY_YES", pnl |-> 100, arbitrage_profit |-> 0],
      [action |-> "BUY_NO", pnl |-> -50, arbitrage_profit |-> 5] }

\* simulate_trading: the trade built from the balance read and the draws
BuildTrade(market, balance, draw) ==
    LET price == IF draw.action = "BUY_YES" THEN market.yes_price ELSE market.no_price
        amount == (balance * 2) \div 100
    IN  SimulatedTrade(market.id, draw.action, price, (amount * 10) \div price,
                       amount, (amount * draw.pnl) \div Scale,
                       (amount * draw.arbitrage_profit) \div Scale)

\* control_bot "start" on a stopped bot: the optional balance replaces
\* initial_balance and balance, the bot runs
Started(state, initial_balance) ==
    IF initial_balance = None
    THEN [state EXCEPT !.running = TRUE]
    ELSE [state EXCEPT !.running = TRUE,
                       !.initial_balance = initial_balance[1],
                       !.balance = initial_balance[1]]

\* clear_trades: the reset of the counters and of the balance
Cleared(state) ==
    [state EXCEPT !.total_trades = 0, !.profitable_trades = 0,
                  !.total_pnl = 0, !.win_rate = 0,
                  !.balance = state.initial_balance]

\* simulate_trading: the update of the bot state by one trade
Traded(state, trade) ==
    LET gain == trade.pnl + trade.arbitrage_profit
        total == state.total_trades + 1
        wins == state.profitable_trades + (IF gain > 0 THEN 1 ELSE 0)
    IN  [state EXCEPT !.balance = @ + gain, !.total_pnl = @ + gain,
                      !.total_trades = total, !.profitable_trades = wins,
                      !.win_rate = (wins * 100 * Scale) \div total]

\* the list after push(trade): only the last 100 trades are kept
Pushed(list, trade) ==
    IF Len(list) + 1 > 100 THEN Tail(Append(list, trade))
    ELSE Append(list, trade)

\* the messages of the responses; the responses are not part of the state
Messages ==
    { "Success", "Bot already running", "Bot started successfully",
      "Bot stopped successfully", "Invalid action",
      "Trades cleared successfully" }

\* a request arrives at the first idle worker
Receive(kinds, max) ==
    /\ env.received < max
    /\ \E w \in 1..Workers, r \in kinds :
          /\ requests[w] = Idle
          /\ \A v \in 1..(w - 1) : requests[v] # Idle
          /\ requests' = [requests EXCEPT ![w] =
                [handler |-> r.handler, action |-> r.action,
                 initial_balance |-> r.initial_balance,
                 pc |-> FirstLock(r.handler)]]
    /\ env' = [env EXCEPT !.received = @ + 1]
    /\ UNCHANGED <<bot_vars, bot_state, sim_trades, app_markets, mutex, tasks>>

ReceiveControl == Receive(ControlRequests, MaxRequests)

ReceiveRequest == Receive(Requests, MaxRequests)

\* a handler blocks in lock() until the mutex is free
HandlerLock ==
    \E w \in 1..Workers :
       /\ requests[w] # Idle
       /\ Lock(Worker(w), requests[w].pc)
       /\ requests' = [requests EXCEPT ![w].pc = Locked(@)]
       /\ UNCHANGED <<bot_vars, bot_state, sim_trades, app_markets, tasks, env>>

\* the handler of worker w returns its response: its guards are dropped
Respond(w, message) ==
    /\ message \in Messages
    /\ Unlock(Worker(w))
    /\ requests' = [requests EXCEPT ![w] = Idle]

\* get_bot_status: a clone of the state under the guard
GetBotStatus ==
    \E w \in 1..Workers :
       /\ requests[w] # Idle
       /\ requests[w].pc = "status"
       /\ Respond(w, "Success")
       /\ UNCHANGED <<bot_vars, bot_state, sim_trades, app_markets, tasks, env>>

\* control_bot, under the guard of bot_state
ControlBot ==
    \E w \in 1..Workers :
       /\ requests[w] # Idle
       /\ requests[w].pc = "control"
       /\ \/ /\ requests[w].action = "start"
             /\ bot_state.running
             /\ Respond(w, "Bot already running")
             /\ UNCHANGED <<bot_state, tasks>>
          \/ /\ requests[w].action = "start"
             /\ ~bot_state.running
             /\ bot_state' = Started(bot_state, requests[w].initial_balance)
             /\ tasks' = Append(tasks, NewTask)
             /\ Respond(w, "Bot started successfully")
          \/ /\ requests[w].action = "stop"
             /\ bot_state' = [bot_state EXCEPT !.running = FALSE]
             /\ Respond(w, "Bot stopped successfully")
             /\ UNCHANGED tasks
          \/ /\ requests[w].action \notin {"start", "stop"}
             /\ Respond(w, "Invalid action")
             /\ UNCHANGED <<bot_state, tasks>>
       /\ UNCHANGED <<bot_vars, sim_trades, app_markets, env>>

\* get_trades: a clone of the list under the guard
GetTrades ==
    \E w \in 1..Workers :
       /\ requests[w] # Idle
       /\ requests[w].pc = "get_trades"
       /\ Respond(w, "Success")
       /\ UNCHANGED <<bot_vars, bot_state, sim_trades, app_markets, tasks, env>>

\* get_markets: a clone of the list under the guard
GetMarkets ==
    \E w \in 1..Workers :
       /\ requests[w] # Idle
       /\ requests[w].pc = "get_markets"
       /\ Respond(w, "Success")
       /\ UNCHANGED <<bot_vars, bot_state, sim_trades, app_markets, tasks, env>>

\* clear_trades, first half: the list is emptied under its guard, which
\* the handler keeps while it goes on to lock bot_state
ClearTrades ==
    \E w \in 1..Workers :
       /\ requests[w] # Idle
       /\ requests[w].pc = "clear"
       /\ sim_trades' = <<>>
       /\ requests' = [requests EXCEPT ![w].pc = "lock_reset"]
       /\ UNCHANGED <<bot_vars, bot_state, app_markets, mutex, tasks, env>>

\* clear_trades, second half: the reset under both guards
ResetState ==
    \E w \in 1..Workers :
       /\ requests[w] # Idle
       /\ requests[w].pc = "reset"
       /\ bot_state' = Cleared(bot_state)
       /\ Respond(w, "Trades cleared successfully")
       /\ UNCHANGED <<bot_vars, sim_trades, app_markets, tasks, env>>

\* interval.tick().await returns
TaskTick ==
    \E i \in DOMAIN tasks :
       /\ tasks[i].pc = "tick"
       /\ \/ env.made < MaxSimTrades
          \/ ~bot_state.running
          \/ app_markets = <<>>
       /\ tasks' = [tasks EXCEPT ![i].pc = "lock_running"]
       /\ UNCHANGED <<bot_vars, bot_state, sim_trades, app_markets, mutex, requests, env>>

\* the task blocks in lock() until the mutex is free
TaskLock ==
    \E i \in DOMAIN tasks :
       /\ Lock(Task(i), tasks[i].pc)
       /\ tasks' = [tasks EXCEPT ![i].pc = Locked(@)]
       /\ UNCHANGED <<bot_vars, bot_state, sim_trades, app_markets, requests, env>>

\* the check without the break
CheckRunning_NoBreak ==
    \E i \in DOMAIN tasks :
       /\ tasks[i].pc = "check_running"
       /\ Unlock(Task(i))
       /\ tasks' = [tasks EXCEPT ![i].pc = "lock_markets"]
       /\ UNCHANGED <<bot_vars, bot_state, sim_trades, app_markets, requests, env>>

\* if !state.running { break; }
CheckRunning ==
    \E i \in DOMAIN tasks :
       /\ tasks[i].pc = "check_running"
       /\ Unlock(Task(i))
       /\ tasks' = [tasks EXCEPT ![i].pc =
                       IF bot_state.running THEN "lock_markets" ELSE "exited"]
       /\ UNCHANGED <<bot_vars, bot_state, sim_trades, app_markets, requests, env>>

\* the clone of the market list, or continue on an empty list
ReadMarkets ==
    \E i \in DOMAIN tasks :
       /\ tasks[i].pc = "read_markets"
       /\ Unlock(Task(i))
       /\ tasks' = IF app_markets = <<>>
                   THEN [tasks EXCEPT ![i].pc = "tick"]
                   ELSE [tasks EXCEPT ![i].pc = "lock_balance",
                                      ![i].available_markets = app_markets]
       /\ UNCHANGED <<bot_vars, bot_state, sim_trades, app_markets, requests, env>>

\* the balance read under the guard; with it, the random market and the
\* draws make the trade
ReadBalance ==
    \E i \in DOMAIN tasks, draw \in TradeDraws :
       /\ tasks[i].pc = "read_balance"
       /\ Unlock(Task(i))
       /\ \E k \in DOMAIN tasks[i].available_markets :
             tasks' = [tasks EXCEPT ![i].pc = "lock_update",
                          ![i].trade =
                             Some(BuildTrade(tasks[i].available_markets[k],
                                             bot_state.balance, draw))]
       /\ UNCHANGED <<bot_vars, bot_state, sim_trades, app_markets, requests, env>>

\* the update with the guard of bot_state kept until the push
UpdateState_KeepGuard ==
    \E i \in DOMAIN tasks :
       /\ tasks[i].pc = "update"
       /\ bot_state' = Traded(bot_state, tasks[i].trade[1])
       /\ tasks' = [tasks EXCEPT ![i].pc = "lock_trades"]
       /\ env' = [env EXCEPT !.made = @ + 1]
       /\ UNCHANGED <<bot_vars, sim_trades, app_markets, requests, mutex>>

\* the update of the bot state under the guard
UpdateState ==
    \E i \in DOMAIN tasks :
       /\ tasks[i].pc = "update"
       /\ Unlock(Task(i))
       /\ bot_state' = Traded(bot_state, tasks[i].trade[1])
       /\ tasks' = [tasks EXCEPT ![i].pc = "lock_trades"]
       /\ env' = [env EXCEPT !.made = @ + 1]
       /\ UNCHANGED <<bot_vars, sim_trades, app_markets, requests>>

\* the push of the trade under the guard of the list
PushTrade ==
    \E i \in DOMAIN tasks :
       /\ tasks[i].pc = "push"
       /\ Unlock(Task(i))
       /\ sim_trades' = Pushed(sim_trades, tasks[i].trade[1])
       /\ tasks' = [tasks EXCEPT ![i] = NewTask]
       /\ UNCHANGED <<bot_vars, bot_state, app_markets, requests, env>>

\* the dashboard with an empty market list, or with one market stored in
\* the pub field AppState.markets
MarketLists == { <<>>, <<MarketInfo("market_0", 600, 400)>> }

DashInit ==
    /\ HftArbitrageBotNew(DefaultConfig, ArbitrageDetectorNew(10, 1000),
                          StatisticalArbOptimizerNew, DefaultRiskManager)
    /\ last = NoCall
    /\ \E market_list \in MarketLists : AppStateNew(market_list)

TaskNext ==
    TaskTick \/ TaskLock \/ CheckRunning \/ ReadMarkets \/ ReadBalance
       \/ UpdateState \/ PushTrade

\* the control endpoint and the tasks it spawns
ControlNext == ReceiveControl \/ HandlerLock \/ ControlBot \/ TaskNext

SpecControl == DashInit /\ [][ControlNext]_vars

\* the simulate_trading futures that have not left their loop
Alive == { i \in DOMAIN tasks : tasks[i].pc # "exited" }

\* C36: for one AppState, after any interleaving of start and stop requests
\* with timer ticks, at most one simulate_trading task is alive: a stop
\* followed by a start before the next tick of the running task does not
\* leave two trading loops
C36_AtMostOneTaskAlive == Cardinality(Alive) <= 1

\* the whole server: every route and the tasks
DashNext ==
    ReceiveRequest \/ HandlerLock \/ GetBotStatus \/ ControlBot \/ GetTrades
       \/ GetMarkets \/ ClearTrades \/ ResetState \/ TaskNext

SpecDash == DashInit /\ [][DashNext]_vars

\* C37: in every state reachable by interleaving simulate_trading with
\* clear_trades, the stored simulated trades are at most total_trades and
\* profitable_trades <= total_trades: clear_trades leaves no stored trade
\* that the counters do not account for
C37_StoredTradesAreCounted ==
    /\ Len(sim_trades) <= bot_state.total_trades
    /\ bot_state.profitable_trades <= bot_state.total_trades

\* requests one run of the server receives where the scheduling is fair
MaxFairRequests == 2

HandlerNext ==
    HandlerLock \/ GetBotStatus \/ ControlBot \/ GetTrades \/ GetMarkets
       \/ ClearTrades \/ ResetState

\* a step of the handler that worker w runs
WorkerStep(w) == HandlerNext /\ requests'[w] # requests[w]

\* a step of the i-th spawned task
TaskStep(i) == i \in DOMAIN tasks /\ TaskNext /\ tasks'[i] # tasks[i]

\* a worker thread or a task that can take a step infinitely often takes
\* one: the guards are held for a few instructions, the interval elapses
Fairness ==
    /\ \A w \in 1..Workers : SF_vars(WorkerStep(w))
    /\ \A i \in 1..MaxFairRequests : SF_vars(TaskStep(i))

\* the requests of the five routes, the one to control_bot a start
LockRequests ==
    { [handler |-> "control_bot", action |-> "start", initial_balance |-> None],
      Get("get_bot_status"), Get("get_trades"), Get("get_markets"), Get("clear_trades") }

ReceiveFair == Receive(LockRequests, MaxFairRequests)

LocksNext == ReceiveFair \/ HandlerNext \/ TaskNext

SpecLocks == DashInit /\ [][LocksNext]_vars /\ Fairness

\* the processes: the workers and the tasks
Processes ==
    { Worker(w) : w \in 1..Workers } \cup { Task(i) : i \in DOMAIN tasks }

\* the position of a process, "" for an idle worker
ProgramPoint(p) ==
    IF p[1] = "task" THEN tasks[p[2]].pc
    ELSE IF requests[p[2]] = Idle THEN "" ELSE requests[p[2]].pc

\* the mutex process p is in lock() for, if any
Wanted(p) == { e[2] : e \in { l \in LockPoints : l[1] = ProgramPoint(p) } }

\* p is in lock() for a mutex that another holds
Blocked(p) == \E m \in Wanted(p) : mutex[m] # None

RECURSIVE Proceeds(_, _)

\* p proceeds, or waits for a holder that proceeds, along at most n waits
Proceeds(p, n) ==
    \/ ~Blocked(p)
    \/ /\ n > 0
       /\ \A m \in Wanted(p) : mutex[m] = None \/ Proceeds(mutex[m][1], n - 1)

\* p is in lock()
Waiting(p) == p \in Processes /\ Wanted(p) # {}

StopRequests ==
    { [handler |-> "control_bot", action |-> "start", initial_balance |-> None],
      [handler |-> "control_bot", action |-> "stop", initial_balance |-> None] }

\* control requests that follow the initial state where tasks must exit
MaxStopRequests == 1

ReceiveStop == Receive(StopRequests, MaxStopRequests)

\* the server after a start, a stop and a start inside one interval period:
\* it runs, two tasks await their tick
RestartedTwice(market_list) ==
    /\ bot_state = BotState(TRUE, 10000 * MoneyScale, 10000 * MoneyScale,
                            0, 0, 0, 0)
    /\ sim_trades = <<>>
    /\ app_markets = market_list
    /\ mutex = [m \in Mutexes |-> None]
    /\ tasks = <<NewTask, NewTask>>
    /\ requests = [w \in 1..Workers |-> Idle]
    /\ env = [received |-> 0, made |-> 0]

StopInit ==
    /\ HftArbitrageBotNew(DefaultConfig, ArbitrageDetectorNew(10, 1000),
                          StatisticalArbOptimizerNew, DefaultRiskManager)
    /\ last = NoCall
    /\ \E market_list \in MarketLists :
          AppStateNew(market_list) \/ RestartedTwice(market_list)

StopNext == ReceiveStop \/ HandlerLock \/ ControlBot \/ TaskNext

\* a worker thread or a task that can keep taking a step takes one: the
\* runtime polls the task when its interval elapses
TickFairness ==
    /\ \A w \in 1..Workers : WF_vars(WorkerStep(w))
    /\ \A i \in 1..(MaxStopRequests + 2) : WF_vars(TaskStep(i))

SpecStop == StopInit /\ [][StopNext]_vars /\ TickFairness

\* every task has left its loop
AllExited == \A i \in DOMAIN tasks : tasks[i].pc = "exited"

\* a step that writes the bot state or the trade list is a step of a
\* handler or of a task that has not exited, and an exited task stays so
WrittenByLiveOnly ==
    /\ \A i \in DOMAIN tasks : tasks[i].pc = "exited" => tasks'[i] = tasks[i]
    /\ bot_state' # bot_state \/ sim_trades' # sim_trades =>
          \/ \E w \in 1..Workers : requests'[w] # requests[w]
          \/ \E i \in DOMAIN tasks :
                tasks[i].pc # "exited" /\ tasks'[i] # tasks[i]

\* C39: if a stop request sets running to false and no start follows (from
\* some point on the bot is stopped for good), then under fair timer ticks
\* every simulate_trading task eventually exits, and an exited task never
\* again modifies balance, total_pnl, total_trades or the trade list
C39_StoppedTasksExit ==
    /\ <>[](~bot_state.running) => <>[]AllExited
    /\ [][WrittenByLiveOnly]_vars

\* the bot is stopped and both tasks of a twice started server have left
\* their loops, after a trade
C39_Witness ==
    /\ ~bot_state.running
    /\ Len(tasks) >= 2
    /\ AllExited
    /\ env.made > 0

\* C40: in every reachable state of BotState, balance equals
\* initial_balance + total_pnl, across any sequence of start (with or
\* without a new initial_balance), stop, clear_trades and simulated trades
C40_BalanceIsInitialPlusPnl ==
    bot_state.balance = bot_state.initial_balance + bot_state.total_pnl

====
